---- MODULE Spec2Model ----
(***************************************************************************)
(* Premium entitlement managers of the bot:                                *)
(*   - utils/premium_manager_enhanced.py  (dict documents, TTL cache),     *)
(*     definitions prefixed E_ ;                                           *)
(*   - utils/premium_manager.py           (typed models, set cache),       *)
(*     definitions prefixed M_ ;                                           *)
(*   - utils/premium_feature_access.py    (level documents, TTL cache),    *)
(*     definitions prefixed A_ .                                           *)
(* Further components, each with its own specification: the bot's sweep    *)
(* loop (B_), the database client (K_), the document models (D_), the      *)
(* feature registry (G_), the sweep against a grant (W_), the global       *)
(* command check (Q_), command sync (Y_) and the background tasks (Z_).    *)
(* bot.premium_manager holds one of them; impl says which one a behaviour  *)
(* runs.  Every handler is one action (the handler run to completion).     *)
(* Time is in seconds.  An optional value is <<>> (None) or <<v>>.         *)
(***************************************************************************)
EXTENDS Integers, Sequences, FiniteSets, TLC

VARIABLES
    impl,                 \* which manager class bot.premium_manager is
    played,               \* the subjects the commands of this run name
    now,                  \* the wall clock, seconds
    dbUp,                 \* TRUE iff store calls succeed
    ret,                  \* what the last manager call did and returned
    lastEvent,            \* per subject: the last thing that touched it
    cachedAt,             \* per subject: when premium_manager.py cached it
    guild_premium_cache,  \* enhanced: PremiumManager.guild_premium_cache
    user_premium_cache,   \* enhanced: PremiumManager.user_premium_cache
    guild_premium,        \* enhanced: collection 'guild_premium'
    user_premium,         \* enhanced: collection 'user_premium'
    premium_guilds,       \* premium_manager.py: PremiumManager.premium_guilds
    premium_users,        \* premium_manager.py: PremiumManager.premium_users
    feature_cache,        \* premium_manager.py: PremiumManager.feature_cache
    guild_docs,           \* premium_manager.py: PremiumGuild collection
    user_docs,            \* premium_manager.py: PremiumUser collection
    cache,                \* feature access: PremiumManager.cache
    cache_last_updated,   \* feature access: PremiumManager.cache_last_updated
    level_docs,           \* feature access: collection 'premium_guilds'
    tasks,                \* enhanced, concurrent calls: the coroutines in flight
    rows,                 \* enhanced, concurrent calls: 'guild_premium' documents per guild_id
    lastWrite,            \* enhanced, concurrent calls: the last write made to 'guild_premium'
    bot,                  \* bot.py: the Bot and its premium_subscription_checker task
    client,               \* safe_mongodb.py: the SafeMongoDBClient and the call it serves
    mm,                   \* mongodb_models.py: one MongoModel record and its collection
    registry,             \* premium_feature_access.py: the PremiumFeatureRegistry
    sw,                   \* premium_manager.py: the sweep and a grant as concurrent coroutines
    gate,                 \* bot.py: the last global_command_check
    sync,                 \* bot.py: the sync_commands calls in flight
    bg                    \* bot.py: bg_tasks and the background task monitor

vars == <<impl, played, now, dbUp, ret, lastEvent, cachedAt,
          guild_premium_cache, user_premium_cache, guild_premium, user_premium,
          premium_guilds, premium_users, feature_cache, guild_docs, user_docs,
          cache, cache_last_updated, level_docs, tasks, rows, lastWrite,
          bot, client, mm, registry, sw, gate, sync, bg>>

\* the state of the components and of the concurrent views that are modelled
\* apart from the sequential view of the managers
sideVars == <<mm, registry, sw, gate, sync, bg>>

\* the state of the concurrent-call view of the enhanced manager
concVars == <<tasks, rows, lastWrite>>
\* what the sequential view of the managers leaves alone
auxVars == <<concVars, bot, client, sideVars>>

enhVars == <<guild_premium_cache, user_premium_cache, guild_premium, user_premium>>
modVars == <<premium_guilds, premium_users, feature_cache, guild_docs, user_docs, cachedAt>>
accVars == <<cache, cache_last_updated, level_docs>>

-----------------------------------------------------------------------------
(* Bounds *)

NumIds == 1          \* guild ids and user ids are 1..NumIds; a run names one of each kind
MaxTicks == 3        \* short clock steps taken between two long ones
MaxJumps == 1        \* long clock steps
MaxTasks == 2        \* concurrent add_guild_premium / remove_guild_premium calls
MaxSweeps == 3       \* sweeps of the checker task that are counted
MaxCloses == 2      \* calls of close() in a row on one client
MaxRows == 2        \* documents the model collection can hold
MaxSaves == 3       \* calls of save() on the record
MaxFeatures == 3    \* feature names the registry is given
MaxCallers == 3     \* coroutines that call sync_commands

(* Program constants *)

cache_ttl == 300           \* seconds
default_duration == 30     \* days
DaySeconds == 86400        \* datetime.timedelta(days=1)
sweep_interval == 3600     \* seconds: asyncio.sleep(3600) of the checker task
max_reconnect_attempts == 3    \* SafeMongoDBClient._max_reconnect_attempts
reconnect_delay == 2           \* seconds: SafeMongoDBClient._reconnect_delay

Ids == 1..NumIds
Kinds == {"guild", "user"}
Subjects == Kinds \X Ids

None == <<>>
Some(v) == <<v>>
Get(o) == o[1]

\* The clock moves in short steps (half a cache TTL) and in long steps that
\* end one short step before a default-length subscription runs out.
TickLen == cache_ttl \div 2
JumpLen == default_duration * DaySeconds - TickLen
PastTime == 0 - DaySeconds       \* "yesterday", seen from the start of the run

Durations == {default_duration}

-----------------------------------------------------------------------------
(* The result record of a manager call *)

Idle == [op |-> "idle", kind |-> "none", id |-> 0, tier |-> 0, feature |-> "none",
         value |-> FALSE, num |-> 0, num2 |-> 0, raised |-> FALSE,
         queried |-> FALSE, fromCache |-> FALSE]

Ret(op, kind, id, tier, feature, value, num, raised, queried, fromCache) ==
    [op |-> op, kind |-> kind, id |-> id, tier |-> tier, feature |-> feature,
     value |-> value, num |-> num, num2 |-> 0, raised |-> raised,
     queried |-> queried, fromCache |-> fromCache]

\* the id numbers the commands of this run name
PlayedIds == {s[2] : s \in played}

Touch(kind, id, what) == [lastEvent EXCEPT ![<<kind, id>>] = what]

-----------------------------------------------------------------------------
(* premium_manager_enhanced.py *)

E_Features == {"custom_prefix", "extended_logs", "auto_responses",
               "advanced_analytics", "custom_commands", "reaction_roles"}

E_TierIds == {1, 2, 3}

premium_tiers(t) ==
    CASE t = 1 -> {"custom_prefix", "extended_logs"}
      [] t = 2 -> {"custom_prefix", "extended_logs", "auto_responses",
                   "advanced_analytics"}
      [] t = 3 -> {"custom_prefix", "extended_logs", "auto_responses",
                   "advanced_analytics", "custom_commands", "reaction_roles"}

\* datetime.isoformat / datetime.fromisoformat on the stored expires_at
isoformat(d) == [iso |-> d]
fromisoformat(s) == s.iso

E_Cache(kind) == IF kind = "guild" THEN guild_premium_cache ELSE user_premium_cache
E_Store(kind) == IF kind = "guild" THEN guild_premium ELSE user_premium

E_Set(kind, c, s) ==
    IF kind = "guild"
    THEN /\ guild_premium_cache' = c
         /\ guild_premium' = s
         /\ UNCHANGED <<user_premium_cache, user_premium>>
    ELSE /\ user_premium_cache' = c
         /\ user_premium' = s
         /\ UNCHANGED <<guild_premium_cache, guild_premium>>

\* (now - updated_at).total_seconds() <= cache_ttl
E_CacheValid(entry) == now - entry.updated_at <= cache_ttl

\* 'expires_at' in cache_entry and cache_entry['expires_at'] and
\* cache_entry['expires_at'] < now
E_CacheExpired(entry) == entry.expires_at /= None /\ Get(entry.expires_at) < now

\* the document's expires_at, parsed: None when the field is empty
E_ParseExpires(row) ==
    IF row.expires_at /= None THEN Some(fromisoformat(Get(row.expires_at))) ELSE None

\* the store half of _update_*_premium_status: find_one, then update_one
\* ($set status, features, expires_at) or insert_one; an exception is logged
E_StoreStatus(s, id, status, features, expires_at) ==
    IF ~dbUp THEN s
    ELSE LET exp == IF expires_at /= None THEN Some(isoformat(Get(expires_at))) ELSE None
         IN IF s[id] /= None
            THEN [s EXCEPT ![id] = Some([Get(s[id]) EXCEPT !.status = status,
                                                           !.features = features,
                                                           !.expires_at = exp])]
            ELSE [s EXCEPT ![id] = Some([status |-> status, tier |-> 0,
                                         features |-> features, expires_at |-> exp])]

\* the cache half, were it to leave the cache entry as it is
E_CacheStatus_skipped(c, id, status, features, expires_at) == c

\* the cache half, were it to add the features to those already cached
E_CacheStatus_merged(c, id, status, features, expires_at) ==
    [c EXCEPT ![id] = Some([status |-> status,
                            features |-> IF c[id] /= None
                                         THEN features \cup Get(c[id]).features
                                         ELSE features,
                            expires_at |-> expires_at, updated_at |-> now])]

\* the cache half of _update_*_premium_status
E_CacheStatus(c, id, status, features, expires_at) ==
    [c EXCEPT ![id] = Some([status |-> status, features |-> features,
                            expires_at |-> expires_at, updated_at |-> now])]

\* _update_guild_premium_status / _update_user_premium_status
E_update_premium_status(c, s, id, status, features, expires_at) ==
    [cache |-> E_CacheStatus(c, id, status, features, expires_at),
     store |-> E_StoreStatus(s, id, status, features, expires_at)]

\* is_*_premium, were it to let the store's exception through
E_OnStoreError_raises == [value |-> FALSE, raised |-> TRUE]

\* what is_*_premium returns when the store call raises
E_OnStoreError == [value |-> FALSE, raised |-> FALSE]

\* is_guild_premium / is_user_premium: the new cache, the new store, the
\* verdict, whether the store was called, whether the verdict is the cached one
E_is_premium(c, s, id) ==
    IF c[id] /= None /\ E_CacheValid(Get(c[id]))
    THEN IF E_CacheExpired(Get(c[id]))
         THEN LET u == E_update_premium_status(c, s, id, FALSE, {}, None)
              IN [cache |-> u.cache, store |-> u.store, value |-> FALSE,
                  raised |-> FALSE, queried |-> TRUE, fromCache |-> TRUE]
         ELSE [cache |-> c, store |-> s, value |-> Get(c[id]).status,
               raised |-> FALSE, queried |-> FALSE, fromCache |-> TRUE]
    ELSE IF ~dbUp
         THEN [cache |-> c, store |-> s, value |-> E_OnStoreError.value,
               raised |-> E_OnStoreError.raised, queried |-> TRUE, fromCache |-> FALSE]
         ELSE IF s[id] /= None
              THEN LET expires_at == E_ParseExpires(Get(s[id]))
                   IN IF expires_at /= None /\ Get(expires_at) < now
                      THEN LET u == E_update_premium_status(c, s, id, FALSE, {}, None)
                           IN [cache |-> u.cache, store |-> u.store, value |-> FALSE,
                               raised |-> FALSE, queried |-> TRUE, fromCache |-> FALSE]
                      ELSE LET u == E_update_premium_status(c, s, id, TRUE,
                                        Get(s[id]).features, expires_at)
                           IN [cache |-> u.cache, store |-> u.store, value |-> TRUE,
                               raised |-> FALSE, queried |-> TRUE, fromCache |-> FALSE]
              ELSE LET u == E_update_premium_status(c, s, id, FALSE, {}, None)
                   IN [cache |-> u.cache, store |-> u.store, value |-> FALSE,
                       raised |-> FALSE, queried |-> TRUE, fromCache |-> FALSE]

\* get_guild_premium_features / get_user_premium_features
E_get_premium_features(c, s, id) ==
    IF c[id] /= None /\ E_CacheValid(Get(c[id])) /\ Get(c[id]).status
    THEN [features |-> Get(c[id]).features, queried |-> FALSE, fromCache |-> TRUE]
    ELSE IF dbUp /\ s[id] /= None /\ Get(s[id]).status
         THEN [features |-> Get(s[id]).features, queried |-> TRUE, fromCache |-> FALSE]
         ELSE [features |-> {}, queried |-> TRUE, fromCache |-> FALSE]

\* the loop, were it to test any() of a tier's features instead of all()
E_HighestTier_any(features) ==
    LET held == {t \in E_TierIds : premium_tiers(t) \cap features /= {}}
    IN IF held = {} THEN 0 ELSE CHOOSE t \in held : \A u \in held : u <= t

\* the loop of get_*_premium_tier: the highest tier all of whose features are held
E_HighestTier(features) ==
    LET held == {t \in E_TierIds : premium_tiers(t) \subseteq features}
    IN IF held = {} THEN 0 ELSE CHOOSE t \in held : \A u \in held : u <= t


\* has_feature(feature_id, guild_id, user_id); an absent id is None
E_has_feature_result(feature_id, guild_id, user_id) ==
    IF guild_id = None /\ user_id = None THEN FALSE
    ELSE IF feature_id \notin E_Features THEN FALSE
    ELSE \/ /\ guild_id /= None
            /\ feature_id \in E_get_premium_features(guild_premium_cache, guild_premium,
                                                     Get(guild_id)).features
         \/ /\ user_id /= None
            /\ feature_id \in E_get_premium_features(user_premium_cache, user_premium,
                                                     Get(user_id)).features

\* whether has_feature took its answer from the cache or called the store:
\* the lookup of the guild when a guild is named, of the user otherwise
E_has_feature_lookup(feature_id, guild_id, user_id) ==
    IF (guild_id = None /\ user_id = None) \/ feature_id \notin E_Features
    THEN [features |-> {}, queried |-> FALSE, fromCache |-> FALSE]
    ELSE IF guild_id /= None
         THEN E_get_premium_features(guild_premium_cache, guild_premium, Get(guild_id))
         ELSE E_get_premium_features(user_premium_cache, user_premium, Get(user_id))

\* the document add_*_premium writes: update_one $set on an existing
\* document, insert_one otherwise
E_GrantDoc(s, id, tier, features, expires_at) ==
    [s EXCEPT ![id] = Some([status |-> TRUE, tier |-> tier, features |-> features,
                            expires_at |-> Some(isoformat(expires_at))])]

\* the $set of remove_*_premium: update_one without upsert
E_RevokeDoc(s, id) ==
    IF s[id] /= None
    THEN [s EXCEPT ![id] = Some([Get(s[id]) EXCEPT !.status = FALSE, !.features = {},
                                                   !.expires_at = None])]
    ELSE s

\* the features add_*_premium grants for a tier
E_GrantFeatures(tier) == premium_tiers(tier)

\* add_guild_premium / add_user_premium
E_add_premium(kind, id, tier, duration_days) ==
    /\ impl = "enhanced"
    /\ <<kind, id>> \in played
    /\ IF tier \notin E_TierIds
       THEN /\ ret' = Ret("add_premium", kind, id, tier, "none", FALSE, 0, FALSE, FALSE, FALSE)
            /\ UNCHANGED <<enhVars, lastEvent>>
       ELSE LET expires_at == now + duration_days * DaySeconds
                features == E_GrantFeatures(tier)
            IN IF dbUp
               THEN LET s1 == E_GrantDoc(E_Store(kind), id, tier, features, expires_at)
                        u == E_update_premium_status(E_Cache(kind), s1, id, TRUE,
                                                     features, Some(expires_at))
                    IN /\ E_Set(kind, u.cache, u.store)
                       /\ ret' = Ret("add_premium", kind, id, tier, "none", TRUE, 0,
                                     FALSE, TRUE, FALSE)
                       /\ lastEvent' = Touch(kind, id, "none")
               ELSE /\ ret' = Ret("add_premium", kind, id, tier, "none", FALSE, 0,
                                  FALSE, TRUE, FALSE)
                    /\ UNCHANGED <<enhVars, lastEvent>>
    /\ UNCHANGED <<auxVars, impl, played, now, dbUp, modVars, accVars>>

\* remove_guild_premium / remove_user_premium
E_remove_premium(kind, id) ==
    /\ impl = "enhanced"
    /\ <<kind, id>> \in played
    /\ IF dbUp
       THEN LET s1 == E_RevokeDoc(E_Store(kind), id)
                u == E_update_premium_status(E_Cache(kind), s1, id, FALSE, {}, None)
            IN /\ E_Set(kind, u.cache, u.store)
               /\ ret' = Ret("remove_premium", kind, id, 0, "none", TRUE, 0,
                             FALSE, TRUE, FALSE)
               /\ lastEvent' = Touch(kind, id, "remove")
       ELSE /\ ret' = Ret("remove_premium", kind, id, 0, "none", FALSE, 0,
                          FALSE, TRUE, FALSE)
            /\ UNCHANGED <<enhVars, lastEvent>>
    /\ UNCHANGED <<auxVars, impl, played, now, dbUp, modVars, accVars>>

\* is_guild_premium / is_user_premium
E_is_premium_call(kind, id) ==
    /\ impl = "enhanced"
    /\ <<kind, id>> \in played
    /\ LET r == E_is_premium(E_Cache(kind), E_Store(kind), id)
       IN /\ E_Set(kind, r.cache, r.store)
          /\ ret' = Ret("is_premium", kind, id, 0, "none", r.value, 0, r.raised,
                        r.queried, r.fromCache)
    /\ lastEvent' = Touch(kind, id, "none")
    /\ UNCHANGED <<auxVars, impl, played, now, dbUp, modVars, accVars>>

\* get_guild_premium_tier / get_user_premium_tier
E_get_premium_tier(kind, id) ==
    /\ impl = "enhanced"
    /\ <<kind, id>> \in played
    /\ LET r == E_is_premium(E_Cache(kind), E_Store(kind), id)
           f == E_get_premium_features(r.cache, r.store, id)
       IN /\ E_Set(kind, r.cache, r.store)
          /\ ret' = Ret("get_tier", kind, id, 0, "none", r.value,
                        IF r.value THEN E_HighestTier(f.features) ELSE 0,
                        r.raised, r.queried, r.fromCache)
    /\ lastEvent' = Touch(kind, id, "none")
    /\ UNCHANGED <<auxVars, impl, played, now, dbUp, modVars, accVars>>

\* has_feature called for a guild, for a user, or for both
E_has_feature(feature_id, guild_id, user_id) ==
    /\ impl = "enhanced"
    /\ guild_id /= None => Get(guild_id) \in PlayedIds
    /\ user_id /= None => Get(user_id) \in PlayedIds
    /\ ret' = Ret("has_feature",
                  IF guild_id /= None /\ user_id /= None THEN "both"
                  ELSE IF guild_id /= None THEN "guild"
                  ELSE IF user_id /= None THEN "user" ELSE "none",
                  IF guild_id /= None THEN Get(guild_id)
                  ELSE IF user_id /= None THEN Get(user_id) ELSE 0,
                  0, feature_id,
                  E_has_feature_result(feature_id, guild_id, user_id), 0, FALSE,
                  E_has_feature_lookup(feature_id, guild_id, user_id).queried,
                  E_has_feature_lookup(feature_id, guild_id, user_id).fromCache)
    /\ UNCHANGED <<auxVars, impl, played, now, dbUp, lastEvent, enhVars, modVars, accVars>>

\* _cleanup_cache: drops the entries older than cache_ttl from both caches
E_Cleaned(c) ==
    [i \in Ids |-> IF c[i] /= None /\ now - Get(c[i]).updated_at > cache_ttl
                   THEN None ELSE c[i]]

E_cleanup_cache ==
    /\ impl = "enhanced"
    /\ guild_premium_cache' = E_Cleaned(guild_premium_cache)
    /\ user_premium_cache' = E_Cleaned(user_premium_cache)
    /\ ret' = Idle
    /\ UNCHANGED <<auxVars, impl, played, now, dbUp, lastEvent, guild_premium, user_premium,
                   modVars, accVars>>

-----------------------------------------------------------------------------
(* premium_manager.py, on the PremiumGuild / PremiumUser / PremiumTier of  *)
(* utils/premium_models.py.  A document is [tier, expires_at,              *)
(* enabled_features]; a user document keeps enabled_features empty.        *)

\* PremiumTier: NONE .. ENTERPRISE
TierNONE == 0
M_Tiers == 0..4

\* the catalog behind PremiumGuild.get_available_features: feature -> tier
M_RequiredTier == [advanced_logging |-> 1, custom_commands |-> 2,
                   advanced_analytics |-> 3, custom_integrations |-> 4]
M_Features == DOMAIN M_RequiredTier

\* PremiumGuild.get_available_features(): what the document's tier unlocks
M_get_available_features(doc) == {f \in M_Features : M_RequiredTier[f] <= doc.tier}

\* PremiumGuild.is_premium() / PremiumUser.is_premium()
M_doc_is_premium(doc) ==
    /\ doc.tier /= TierNONE
    /\ doc.expires_at = None \/ Get(doc.expires_at) > now

\* PremiumGuild.has_feature(feature)
M_doc_has_feature(doc, feature) ==
    M_doc_is_premium(doc) /\ feature \in doc.enabled_features

\* PremiumGuild(guild_id=...) / PremiumUser(user_id=...): a new record
M_NewDoc == [tier |-> TierNONE, expires_at |-> None, enabled_features |-> {}]

\* upgrade_tier(tier) followed by extend_subscription(duration_days)
M_Granted(doc, tier, duration_days) ==
    [doc EXCEPT !.tier = tier, !.expires_at = Some(now + duration_days * DaySeconds)]

M_Docs(kind) == IF kind = "guild" THEN guild_docs ELSE user_docs
M_Cached(kind) == IF kind = "guild" THEN premium_guilds ELSE premium_users

\* PremiumGuild.get_by_guild_id / PremiumUser.get_by_user_id: the document,
\* or None when there is none or the find failed
M_get_by_id(kind, id) == IF dbUp THEN M_Docs(kind)[id] ELSE None

\* the test of save's result, were add / remove to take every result as a success
M_SaveOk_ignored == TRUE

\* MongoModel.save: TRUE iff the result is a success
M_SaveOk == dbUp

M_SetDocs(kind, d) ==
    IF kind = "guild" THEN guild_docs' = d /\ UNCHANGED user_docs
    ELSE user_docs' = d /\ UNCHANGED guild_docs

\* premium_guilds.add / premium_users.add, and feature_cache[guild_id] = ...
M_CacheAdd(kind, id, features) ==
    /\ IF kind = "guild"
       THEN /\ premium_guilds' = premium_guilds \cup {id}
            /\ feature_cache' = [feature_cache EXCEPT ![id] = Some(features)]
            /\ UNCHANGED premium_users
       ELSE /\ premium_users' = premium_users \cup {id}
            /\ UNCHANGED <<premium_guilds, feature_cache>>
    /\ cachedAt' = [cachedAt EXCEPT ![<<kind, id>>] = Some(now)]

\* premium_guilds.remove / premium_users.remove, and del feature_cache[guild_id]
M_CacheRemove(kind, id) ==
    /\ IF kind = "guild"
       THEN /\ premium_guilds' = premium_guilds \ {id}
            /\ feature_cache' = [feature_cache EXCEPT ![id] = None]
            /\ UNCHANGED premium_users
       ELSE /\ premium_users' = premium_users \ {id}
            /\ UNCHANGED <<premium_guilds, feature_cache>>
    /\ cachedAt' = [cachedAt EXCEPT ![<<kind, id>>] = None]

M_CacheSame == UNCHANGED <<premium_guilds, premium_users, feature_cache, cachedAt>>

\* the cache test of is_guild_premium / is_user_premium
M_CacheHit(kind, id) == id \in M_Cached(kind)

\* is_guild_premium / is_user_premium
M_is_premium(kind, id) ==
    /\ impl = "models"
    /\ <<kind, id>> \in played
    /\ IF M_CacheHit(kind, id)
       THEN /\ ret' = Ret("is_premium", kind, id, 0, "none", TRUE, 0, FALSE, FALSE, TRUE)
            /\ M_CacheSame
       ELSE LET doc == M_get_by_id(kind, id)
            IN IF doc /= None /\ M_doc_is_premium(Get(doc))
               THEN /\ M_CacheAdd(kind, id, Get(doc).enabled_features)
                    /\ ret' = Ret("is_premium", kind, id, 0, "none", TRUE, 0, FALSE,
                                  TRUE, FALSE)
               ELSE /\ M_CacheSame
                    /\ ret' = Ret("is_premium", kind, id, 0, "none", FALSE, 0, FALSE,
                                  TRUE, FALSE)
    /\ lastEvent' = Touch(kind, id, "none")
    /\ UNCHANGED <<auxVars, impl, played, now, dbUp, guild_docs, user_docs, enhVars, accVars>>

\* can_use_feature(guild_id, feature)
M_can_use_feature(id, feature) ==
    /\ impl = "models"
    /\ <<"guild", id>> \in played
    /\ IF /\ id \in premium_guilds
          /\ feature_cache[id] /= None
          /\ feature \in Get(feature_cache[id])
       THEN /\ ret' = Ret("can_use_feature", "guild", id, 0, feature, TRUE, 0, FALSE,
                          FALSE, TRUE)
            /\ M_CacheSame
       ELSE LET doc == M_get_by_id("guild", id)
            IN IF doc /= None /\ M_doc_has_feature(Get(doc), feature)
               THEN /\ M_CacheAdd("guild", id, Get(doc).enabled_features)
                    /\ ret' = Ret("can_use_feature", "guild", id, 0, feature, TRUE, 0,
                                  FALSE, TRUE, FALSE)
               ELSE /\ M_CacheSame
                    /\ ret' = Ret("can_use_feature", "guild", id, 0, feature, FALSE, 0,
                                  FALSE, TRUE, FALSE)
    /\ UNCHANGED <<auxVars, impl, played, now, dbUp, lastEvent, guild_docs, user_docs,
                   enhVars, accVars>>

\* the record add_guild_premium / add_user_premium saves
M_GrantDoc(kind, doc, tier, duration_days) ==
    LET g == M_Granted(doc, tier, duration_days)
    IN IF kind = "guild"
       THEN [g EXCEPT !.enabled_features = M_get_available_features(g)]
       ELSE g

\* add_guild_premium / add_user_premium
M_add_premium(kind, id, tier, duration_days) ==
    /\ impl = "models"
    /\ <<kind, id>> \in played
    /\ LET found == M_get_by_id(kind, id)
           doc == M_GrantDoc(kind, IF found /= None THEN Get(found) ELSE M_NewDoc,
                             tier, duration_days)
       IN IF M_SaveOk
          THEN /\ M_SetDocs(kind, [M_Docs(kind) EXCEPT ![id] = Some(doc)])
               /\ M_CacheAdd(kind, id, doc.enabled_features)
               /\ ret' = Ret("add_premium", kind, id, tier, "none", TRUE, 0, FALSE,
                             TRUE, FALSE)
               /\ lastEvent' = Touch(kind, id, "none")
          ELSE /\ ret' = Ret("add_premium", kind, id, tier, "none", FALSE, 0, FALSE,
                             TRUE, FALSE)
               /\ M_CacheSame
               /\ UNCHANGED <<guild_docs, user_docs, lastEvent>>
    /\ UNCHANGED <<auxVars, impl, played, now, dbUp, enhVars, accVars>>

\* the record remove_guild_premium / remove_user_premium saves
M_RevokeDoc(kind, doc) ==
    IF kind = "guild"
    THEN [doc EXCEPT !.tier = TierNONE, !.expires_at = None, !.enabled_features = {}]
    ELSE [doc EXCEPT !.tier = TierNONE, !.expires_at = None]

\* remove_guild_premium / remove_user_premium
M_remove_premium(kind, id) ==
    /\ impl = "models"
    /\ <<kind, id>> \in played
    /\ LET found == M_get_by_id(kind, id)
       IN IF found = None
          THEN /\ ret' = Ret("remove_premium", kind, id, 0, "none", FALSE, 0, FALSE,
                             TRUE, FALSE)
               /\ M_CacheSame
               /\ UNCHANGED <<guild_docs, user_docs, lastEvent>>
          ELSE IF M_SaveOk
               THEN /\ M_SetDocs(kind, [M_Docs(kind) EXCEPT
                                           ![id] = Some(M_RevokeDoc(kind, Get(found)))])
                    /\ M_CacheRemove(kind, id)
                    /\ ret' = Ret("remove_premium", kind, id, 0, "none", TRUE, 0,
                                  FALSE, TRUE, FALSE)
                    /\ lastEvent' = Touch(kind, id, "remove")
               ELSE /\ ret' = Ret("remove_premium", kind, id, 0, "none", FALSE, 0,
                                  FALSE, TRUE, FALSE)
                    /\ M_CacheSame
                    /\ UNCHANGED <<guild_docs, user_docs, lastEvent>>
    /\ UNCHANGED <<auxVars, impl, played, now, dbUp, enhVars, accVars>>

\* the query {"expires_at": {"$lt": now}} of check_and_remove_expired
M_ExpiredQuery(docs) ==
    IF dbUp
    THEN {i \in Ids : docs[i] /= None /\ Get(docs[i]).expires_at /= None
                      /\ Get(Get(docs[i]).expires_at) < now}
    ELSE {}

\* the documents check_and_remove_expired downgrades: found and tier /= NONE
M_ToDowngrade(docs) == {i \in M_ExpiredQuery(docs) : Get(docs[i]).tier /= TierNONE}

\* what check_and_remove_expired saves for a guild / for a user
M_DowngradedGuild(doc) == [doc EXCEPT !.tier = TierNONE, !.enabled_features = {}]
M_DowngradedUser(doc) == [doc EXCEPT !.tier = TierNONE]

\* the sweep, were it to leave the downgraded ids in the cache
M_SweptSet_kept(cached, ids) == cached

\* the cache entries check_and_remove_expired drops for the downgraded ids
M_SweptSet(cached, ids) == cached \ ids

\* the documents of ids after the sweep's saves: a save that returns an error
\* result (ids in failed) leaves the stored document as it was
M_SweepSaved(kind, docs, ids, failed) ==
    [i \in Ids |-> IF i \in ids \ failed
                   THEN Some(IF kind = "guild" THEN M_DowngradedGuild(Get(docs[i]))
                             ELSE M_DowngradedUser(Get(docs[i])))
                   ELSE docs[i]]

\* check_and_remove_expired; gfail / ufail are the guilds / users whose save
\* returns an error result (the store is lost after the find)
M_check_and_remove_expired(gfail, ufail) ==
    /\ impl = "models"
    /\ LET gs == M_ToDowngrade(guild_docs)
           us == M_ToDowngrade(user_docs)
       IN /\ gfail \subseteq gs
          /\ ufail \subseteq us
          /\ guild_docs' = M_SweepSaved("guild", guild_docs, gs, gfail)
          /\ user_docs' = M_SweepSaved("user", user_docs, us, ufail)
          /\ premium_guilds' = M_SweptSet(premium_guilds, gs)
          /\ premium_users' = M_SweptSet(premium_users, us)
          /\ feature_cache' = [i \in Ids |-> IF i \in gs THEN None ELSE feature_cache[i]]
          /\ cachedAt' = [s \in Subjects |->
                             IF \/ s[1] = "guild" /\ s[2] \in gs
                                \/ s[1] = "user" /\ s[2] \in us
                             THEN None ELSE cachedAt[s]]
          /\ ret' = [Idle EXCEPT !.op = "sweep", !.num = Cardinality(gs),
                                 !.num2 = Cardinality(us), !.queried = TRUE,
                                 !.value = (gfail = {} /\ ufail = {})]
    /\ UNCHANGED <<auxVars, impl, played, now, dbUp, lastEvent, enhVars, accVars>>

\* a writer that bypasses the manager sets the expires_at of a running,
\* dated subscription to a past time
M_ExternalExpire(kind, id) ==
    /\ impl = "models"
    /\ <<kind, id>> \in played
    /\ dbUp
    /\ M_Docs(kind)[id] /= None
    /\ LET doc == Get(M_Docs(kind)[id])
       IN /\ doc.tier /= TierNONE
          /\ doc.expires_at /= None
          /\ Get(doc.expires_at) >= now
          /\ M_SetDocs(kind, [M_Docs(kind) EXCEPT
                                 ![id] = Some([doc EXCEPT !.expires_at = Some(PastTime)])])
    /\ ret' = Idle
    /\ lastEvent' = Touch(kind, id, "external")
    /\ M_CacheSame
    /\ UNCHANGED <<auxVars, impl, played, now, dbUp, enhVars, accVars>>

-----------------------------------------------------------------------------
(* premium_feature_access.py: the level of a guild *)

FREE == 0
A_Levels == 0..4

\* datetime.now() - cache_time < timedelta(seconds=cache_ttl)
A_CacheValid(id) ==
    /\ cache[id] /= None
    /\ cache_last_updated[id] /= None
    /\ now - Get(cache_last_updated[id]) < cache_ttl

\* get_guild_premium_level(guild_id)
A_get_guild_premium_level(id) ==
    /\ impl = "access"
    /\ <<"guild", id>> \in played
    /\ IF A_CacheValid(id)
       THEN /\ ret' = [Idle EXCEPT !.op = "get_level", !.kind = "guild", !.id = id,
                                   !.num = Get(cache[id]), !.fromCache = TRUE]
            /\ UNCHANGED <<cache, cache_last_updated>>
       ELSE IF dbUp /\ level_docs[id] /= None
            THEN /\ cache' = [cache EXCEPT ![id] = level_docs[id]]
                 /\ cache_last_updated' = [cache_last_updated EXCEPT ![id] = Some(now)]
                 /\ ret' = [Idle EXCEPT !.op = "get_level", !.kind = "guild", !.id = id,
                                        !.num = Get(level_docs[id]), !.queried = TRUE]
            ELSE /\ ret' = [Idle EXCEPT !.op = "get_level", !.kind = "guild", !.id = id,
                                        !.num = FREE, !.queried = TRUE]
                 /\ UNCHANGED <<cache, cache_last_updated>>
    /\ UNCHANGED <<auxVars, impl, played, now, dbUp, lastEvent, level_docs, enhVars, modVars>>

\* the registry's default features: feature name -> required_level
A_RequiredLevel == [advanced_logging |-> 1, custom_commands |-> 2, auto_moderation |-> 2,
                    advanced_analytics |-> 3, custom_integrations |-> 4]
A_Features == DOMAIN A_RequiredLevel

\* has_feature_access(guild_id, feature_name): registry.get_feature, then
\* get_guild_premium_level, then guild_level >= feature.required_level
A_has_feature_access(id, feature_name) ==
    /\ impl = "access"
    /\ <<"guild", id>> \in played
    /\ LET r == [Idle EXCEPT !.op = "has_feature_access", !.kind = "guild", !.id = id,
                             !.feature = feature_name]
       IN IF feature_name \notin A_Features
          THEN /\ ret' = r
               /\ UNCHANGED <<cache, cache_last_updated>>
          ELSE IF A_CacheValid(id)
               THEN /\ ret' = [r EXCEPT !.num = Get(cache[id]), !.fromCache = TRUE,
                                        !.value = Get(cache[id]) >= A_RequiredLevel[feature_name]]
                    /\ UNCHANGED <<cache, cache_last_updated>>
               ELSE IF dbUp /\ level_docs[id] /= None
                    THEN /\ cache' = [cache EXCEPT ![id] = level_docs[id]]
                         /\ cache_last_updated' = [cache_last_updated EXCEPT ![id] = Some(now)]
                         /\ ret' = [r EXCEPT !.num = Get(level_docs[id]), !.queried = TRUE,
                                             !.value = Get(level_docs[id]) >=
                                                          A_RequiredLevel[feature_name]]
                    ELSE /\ ret' = [r EXCEPT !.num = FREE, !.queried = TRUE,
                                             !.value = FREE >= A_RequiredLevel[feature_name]]
                         /\ UNCHANGED <<cache, cache_last_updated>>
    /\ UNCHANGED <<auxVars, impl, played, now, dbUp, lastEvent, level_docs, enhVars, modVars>>

\* set_guild_premium_level(guild_id, level): update_one with upsert=True
A_set_guild_premium_level(id, level) ==
    /\ impl = "access"
    /\ <<"guild", id>> \in played
    /\ IF dbUp
       THEN /\ level_docs' = [level_docs EXCEPT ![id] = Some(level)]
            /\ cache' = [cache EXCEPT ![id] = Some(level)]
            /\ cache_last_updated' = [cache_last_updated EXCEPT ![id] = Some(now)]
            /\ ret' = [Idle EXCEPT !.op = "set_level", !.kind = "guild", !.id = id,
                                   !.tier = level, !.value = TRUE, !.queried = TRUE]
       ELSE /\ ret' = [Idle EXCEPT !.op = "set_level", !.kind = "guild", !.id = id,
                                   !.tier = level, !.queried = TRUE]
            /\ UNCHANGED <<cache, cache_last_updated, level_docs>>
    /\ UNCHANGED <<auxVars, impl, played, now, dbUp, lastEvent, enhVars, modVars>>

-----------------------------------------------------------------------------
(* The environment: the clock, the store's availability, another writer *)

TicksOf(t) == (t % JumpLen) \div TickLen
JumpsOf(t) == t \div JumpLen

Tick ==
    /\ TicksOf(now) < MaxTicks
    /\ now' = now + TickLen
    /\ ret' = Idle
    /\ UNCHANGED <<auxVars, impl, played, dbUp, lastEvent, enhVars, modVars, accVars>>

Jump ==
    /\ JumpsOf(now) < MaxJumps
    /\ now' = now + JumpLen
    /\ ret' = Idle
    /\ UNCHANGED <<auxVars, impl, played, dbUp, lastEvent, enhVars, modVars, accVars>>

StoreDown ==
    /\ dbUp
    /\ dbUp' = FALSE
    /\ ret' = Idle
    /\ UNCHANGED <<auxVars, impl, played, now, lastEvent, enhVars, modVars, accVars>>

StoreUp ==
    /\ ~dbUp
    /\ dbUp' = TRUE
    /\ ret' = Idle
    /\ UNCHANGED <<auxVars, impl, played, now, lastEvent, enhVars, modVars, accVars>>

\* a writer that bypasses the manager sets the expires_at of a running,
\* dated subscription to a past time
E_ExternalExpire(kind, id) ==
    /\ impl = "enhanced"
    /\ <<kind, id>> \in played
    /\ dbUp
    /\ E_Store(kind)[id] /= None
    /\ LET row == Get(E_Store(kind)[id])
       IN /\ row.status
          /\ row.expires_at /= None
          /\ fromisoformat(Get(row.expires_at)) >= now
          /\ E_Set(kind, E_Cache(kind),
                   [E_Store(kind) EXCEPT ![id] =
                        Some([row EXCEPT !.expires_at = Some(isoformat(PastTime))])])
    /\ ret' = Idle
    /\ lastEvent' = Touch(kind, id, "external")
    /\ UNCHANGED <<auxVars, impl, played, now, dbUp, modVars, accVars>>

-----------------------------------------------------------------------------

GrantTiers == 0..3
FeatureNames == E_Features \cup {"unknown_feature"}
\* the tiers granted: BASIC..PRO to a guild; STANDARD, the default of
\* add_user_premium, to a user, whose tier unlocks nothing tier-specific
M_GrantTiers(kind) == IF kind = "guild" THEN 1..3 ELSE {2}
M_FeatureNames == M_Features \cup {"unknown_feature"}
OptIds == {None} \cup {Some(i) : i \in Ids}
\* Bot.__init__: no premium manager, no background task, not closed
NoBot == [initialized |-> FALSE, premium_manager |-> FALSE, closed |-> FALSE,
          task |-> "none", fresh |-> FALSE, waited |-> 0, turn |-> FALSE,
          last |-> "none", raised_seen |-> FALSE, sweeps |-> 0]
\* no sweep and no grant in flight
NoSweep == [sweep |-> [pc |-> "idle", read |-> <<>>, todo |-> {}, cur |-> 0, count |-> 0],
            grant |-> [pc |-> "idle", id |-> 0, tier |-> 0, rec |-> <<>>, ok |-> FALSE],
            overlap |-> {}, granted |-> <<>>]
\* no command checked yet
NoGate == [called |-> FALSE, owner |-> FALSE, cog |-> FALSE, premium_required |-> FALSE,
           premium_feature |-> "none", guild |-> FALSE, manager |-> FALSE,
           answer |-> "False", checked |-> "none", result |-> "none", sent |-> FALSE]
\* _sync_in_progress = False, no caller of sync_commands yet
Y_Callers == 1..MaxCallers
NoSync == [in_progress |-> FALSE,
           callers |-> [t \in Y_Callers |-> [pc |-> "idle", result |-> "none"]]]
\* Bot.__init__: bg_tasks = {}, no monitor, not closed.  An entry of bg_tasks
\* is its task (state), its critical flag and its coroutine object (coro)
Z_Names == {"premium_subscription_checker", "status_rotation"}
Z_NoEntry == [state |-> "none", critical |-> FALSE, coro |-> "none", restarted |-> FALSE]
NoBg == [closed |-> FALSE, monitor |-> FALSE, tasks |-> [n \in Z_Names |-> Z_NoEntry]]
\* PremiumFeatureRegistry.__init__: no feature; nothing asked yet
NoRegistry == [features |-> <<>>, level |-> 0, returned |-> <<>>, asked |-> FALSE]
\* no MongoModel record yet, an empty collection
NoModel == [record |-> <<>>, collection |-> <<>>, mine |-> {}, saves |-> 0,
            saved |-> 0, loaded |-> FALSE,
            ret |-> [op |-> "none", error |-> FALSE, raised |-> FALSE,
                     inserted |-> FALSE, value |-> [kind |-> "None", v |-> 0]]]
\* SafeMongoDBClient.__init__
NoResult == [success |-> FALSE, error_type |-> "none", data |-> "none", raised |-> FALSE]
NoClient == [connected |-> FALSE, has_client |-> FALSE, has_database |-> FALSE,
             pc |-> "idle", op |-> "none", attempt |-> 0, connects |-> 0, fails |-> 0,
             slept |-> 0, tries |-> 0, thrown |-> "none", result |-> NoResult,
             closes |-> 0]
TaskIds == 1..MaxTasks
\* a coroutine slot no call has used yet
NoTask == [op |-> "none", pc |-> "idle", id |-> 0, tier |-> 0, status |-> FALSE,
           features |-> {}, expires_at |-> None, existing |-> FALSE, returned_at |-> None]
\* the levels callers pass to set_guild_premium_level: the defined ones and one
\* past ENTERPRISE
A_SetLevels == A_Levels \cup {Cardinality(A_Levels)}
A_FeatureNames == A_Features \cup {"unknown_feature"}

Init ==
    /\ \/ impl = "enhanced" /\ played \in {{s} : s \in Subjects}
       \/ impl = "models" /\ played \in {{<<"guild", g>>, <<"user", u>>} : g \in Ids, u \in Ids}
       \/ impl = "access" /\ played \in {{<<"guild", g>>} : g \in Ids}
    /\ now = 0
    /\ dbUp = TRUE
    /\ ret = Idle
    /\ lastEvent = [s \in Subjects |-> "none"]
    /\ cachedAt = [s \in Subjects |-> None]
    /\ guild_premium_cache = [i \in Ids |-> None]
    /\ user_premium_cache = [i \in Ids |-> None]
    /\ guild_premium = [i \in Ids |-> None]
    /\ user_premium = [i \in Ids |-> None]
    /\ premium_guilds = {}
    /\ premium_users = {}
    /\ feature_cache = [i \in Ids |-> None]
    /\ guild_docs = [i \in Ids |-> None]
    /\ user_docs = [i \in Ids |-> None]
    /\ cache = [i \in Ids |-> None]
    /\ cache_last_updated = [i \in Ids |-> None]
    /\ level_docs = [i \in Ids |-> None]
    /\ tasks = [t \in TaskIds |-> NoTask]
    /\ rows = [i \in Ids |-> <<>>]
    /\ lastWrite = [i \in Ids |-> None]
    /\ bot = NoBot
    /\ client = NoClient
    /\ mm = NoModel
    /\ registry = NoRegistry
    /\ sw = NoSweep
    /\ gate = NoGate
    /\ sync = NoSync
    /\ bg = NoBg

Next ==
    \/ \E k \in Kinds, i \in Ids, t \in GrantTiers, d \in Durations :
          E_add_premium(k, i, t, d)
    \/ \E k \in Kinds, i \in Ids : E_remove_premium(k, i)
    \/ \E k \in Kinds, i \in Ids : E_is_premium_call(k, i)
    \/ \E k \in Kinds, i \in Ids : E_get_premium_tier(k, i)
    \/ \E f \in FeatureNames, g \in OptIds, u \in OptIds : E_has_feature(f, g, u)
    \/ E_cleanup_cache
    \/ \E k \in Kinds, i \in Ids : E_ExternalExpire(k, i)
    \/ \E k \in Kinds, i \in Ids, d \in Durations :
          \E t \in M_GrantTiers(k) : M_add_premium(k, i, t, d)
    \/ \E k \in Kinds, i \in Ids : M_remove_premium(k, i)
    \/ \E k \in Kinds, i \in Ids : M_is_premium(k, i)
    \/ \E i \in Ids, f \in M_FeatureNames : M_can_use_feature(i, f)
    \/ \E gf \in SUBSET Ids, uf \in SUBSET Ids : M_check_and_remove_expired(gf, uf)
    \/ \E k \in Kinds, i \in Ids : M_ExternalExpire(k, i)
    \/ \E i \in Ids : A_get_guild_premium_level(i)
    \/ \E i \in Ids, l \in A_SetLevels : A_set_guild_premium_level(i, l)
    \/ \E i \in Ids, f \in A_FeatureNames : A_has_feature_access(i, f)
    \/ Tick
    \/ Jump
    \/ StoreDown
    \/ StoreUp

Spec == Init /\ [][Next]_vars

-----------------------------------------------------------------------------
(* premium_manager_enhanced.py under concurrent calls.  add_guild_premium  *)
(* and remove_guild_premium are coroutines: each store call is an await,   *)
(* and between two awaits of one call the steps of the other calls may     *)
(* run.  The collection is a list of documents per guild_id: find_one      *)
(* returns the first one, update_one changes the first one, insert_one     *)
(* appends.                                                                *)

\* what the sequential view holds that the concurrent calls never touch
seqVars == <<impl, played, dbUp, lastEvent, user_premium_cache, guild_premium,
             user_premium, modVars, accVars, bot, client, sideVars>>

\* find_one('guild_premium', {'guild_id': ...}) for every guild_id
T_find_one == [i \in Ids |-> IF rows[i] = <<>> THEN None ELSE Some(Head(rows[i]))]

\* update_one: $set on the first matching document, nothing without a match
T_update_one(id, doc) ==
    IF rows[id] = <<>> THEN rows
    ELSE [rows EXCEPT ![id] = <<doc>> \o Tail(rows[id])]

\* insert_one
T_insert_one(id, doc) == [rows EXCEPT ![id] = Append(rows[id], doc)]

\* the status, features and expires_at a write sets
T_Written(doc) == [status |-> doc.status, features |-> doc.features,
                   expires_at |-> doc.expires_at]

T_NoteWrite(id, doc, matched) ==
    lastWrite' = IF matched THEN [lastWrite EXCEPT ![id] = Some(T_Written(doc))]
                 ELSE lastWrite

\* a call starts: the synchronous part up to its first await
T_call_add_guild_premium(t, id, tier, duration_days) ==
    /\ impl = "enhanced"
    /\ <<"guild", id>> \in played
    /\ tasks[t].pc = "idle"
    /\ \A u \in TaskIds : u < t => tasks[u].pc /= "idle"
    /\ tier \in E_TierIds
    /\ tasks' = [tasks EXCEPT ![t] =
                    [NoTask EXCEPT !.op = "add", !.pc = "find", !.id = id, !.tier = tier,
                                   !.status = TRUE, !.features = E_GrantFeatures(tier),
                                   !.expires_at = Some(now + duration_days * DaySeconds)]]
    /\ ret' = Idle
    /\ UNCHANGED <<seqVars, now, guild_premium_cache, rows, lastWrite>>

T_call_remove_guild_premium(t, id) ==
    /\ impl = "enhanced"
    /\ <<"guild", id>> \in played
    /\ tasks[t].pc = "idle"
    /\ \A u \in TaskIds : u < t => tasks[u].pc /= "idle"
    /\ tasks' = [tasks EXCEPT ![t] =
                    [NoTask EXCEPT !.op = "remove", !.pc = "write", !.id = id]]
    /\ ret' = Idle
    /\ UNCHANGED <<seqVars, now, guild_premium_cache, rows, lastWrite>>

\* add_guild_premium: existing = await self.db.find_one(...)
T_find(t) ==
    /\ tasks[t].pc = "find"
    /\ tasks' = [tasks EXCEPT ![t].existing = (rows[tasks[t].id] /= <<>>),
                              ![t].pc = "write"]
    /\ ret' = Idle
    /\ UNCHANGED <<seqVars, now, guild_premium_cache, rows, lastWrite>>

\* add_guild_premium: update_one of the existing document, insert_one otherwise;
\* remove_guild_premium: update_one
T_write(t) ==
    /\ tasks[t].pc = "write"
    /\ LET id == tasks[t].id
           granted == Get(E_GrantDoc(T_find_one, id, tasks[t].tier, tasks[t].features,
                                     Get(tasks[t].expires_at))[id])
       IN IF tasks[t].op = "add"
          THEN IF tasks[t].existing
               THEN /\ rows' = T_update_one(id, granted)
                    /\ T_NoteWrite(id, granted, rows[id] /= <<>>)
               ELSE /\ rows' = T_insert_one(id, granted)
                    /\ T_NoteWrite(id, granted, TRUE)
          ELSE IF rows[id] /= <<>>
               THEN /\ rows' = T_update_one(id, Get(E_RevokeDoc(T_find_one, id)[id]))
                    /\ T_NoteWrite(id, Get(E_RevokeDoc(T_find_one, id)[id]), TRUE)
               ELSE UNCHANGED <<rows, lastWrite>>
    /\ tasks' = [tasks EXCEPT ![t].pc = "cache"]
    /\ ret' = Idle
    /\ UNCHANGED <<seqVars, now, guild_premium_cache>>

\* _update_guild_premium_status, up to its first await: the cache entry
T_cache(t) ==
    /\ tasks[t].pc = "cache"
    /\ guild_premium_cache' =
          E_CacheStatus(guild_premium_cache, tasks[t].id, tasks[t].status,
                        tasks[t].features, tasks[t].expires_at)
    /\ tasks' = [tasks EXCEPT ![t].pc = "ufind"]
    /\ ret' = Idle
    /\ UNCHANGED <<seqVars, now, rows, lastWrite>>

\* _update_guild_premium_status: existing = await self.db.find_one(...)
T_ufind(t) ==
    /\ tasks[t].pc = "ufind"
    /\ tasks' = [tasks EXCEPT ![t].existing = (rows[tasks[t].id] /= <<>>),
                              ![t].pc = "uwrite"]
    /\ ret' = Idle
    /\ UNCHANGED <<seqVars, now, guild_premium_cache, rows, lastWrite>>

\* _update_guild_premium_status: update_one of the existing document,
\* insert_one otherwise; then the call returns True
T_uwrite(t) ==
    /\ tasks[t].pc = "uwrite"
    /\ LET id == tasks[t].id
           updated == Get(E_StoreStatus(T_find_one, id, tasks[t].status,
                                        tasks[t].features, tasks[t].expires_at)[id])
           created == Get(E_StoreStatus([i \in Ids |-> None], id, tasks[t].status,
                                        tasks[t].features, tasks[t].expires_at)[id])
       IN IF tasks[t].existing
          THEN /\ rows' = T_update_one(id, updated)
               /\ T_NoteWrite(id, updated, rows[id] /= <<>>)
          ELSE /\ rows' = T_insert_one(id, created)
               /\ T_NoteWrite(id, created, TRUE)
    /\ tasks' = [tasks EXCEPT ![t].pc = "done", ![t].returned_at = Some(now)]
    /\ ret' = Idle
    /\ UNCHANGED <<seqVars, now, guild_premium_cache>>

\* every call made so far has returned
T_AllReturned ==
    /\ \A t \in TaskIds : tasks[t].pc \in {"idle", "done"}
    /\ \E t \in TaskIds : tasks[t].pc = "done"

\* is_guild_premium, called once every add / remove call has returned
T_is_guild_premium(id) ==
    /\ impl = "enhanced"
    /\ <<"guild", id>> \in played
    /\ T_AllReturned
    /\ LET r == E_is_premium(guild_premium_cache, T_find_one, id)
       IN /\ guild_premium_cache' = r.cache
          /\ IF r.store[id] = T_find_one[id]
             THEN UNCHANGED <<rows, lastWrite>>
             ELSE /\ rows' = IF rows[id] = <<>> THEN T_insert_one(id, Get(r.store[id]))
                             ELSE T_update_one(id, Get(r.store[id]))
                  /\ T_NoteWrite(id, Get(r.store[id]), TRUE)
          /\ ret' = Ret("is_premium", "guild", id, 0, "none", r.value, 0, r.raised,
                        r.queried, r.fromCache)
    /\ UNCHANGED <<seqVars, now, tasks>>

InitConc ==
    /\ Init
    /\ impl = "enhanced"
    /\ \E g \in Ids : played = {<<"guild", g>>}

NextConc ==
    \/ \E t \in TaskIds, i \in Ids, tier \in E_TierIds, d \in Durations :
          T_call_add_guild_premium(t, i, tier, d)
    \/ \E t \in TaskIds, i \in Ids : T_call_remove_guild_premium(t, i)
    \/ \E t \in TaskIds : T_find(t)
    \/ \E t \in TaskIds : T_write(t)
    \/ \E t \in TaskIds : T_cache(t)
    \/ \E t \in TaskIds : T_ufind(t)
    \/ \E t \in TaskIds : T_uwrite(t)
    \/ \E i \in Ids : T_is_guild_premium(i)
    \/ Tick

SpecConc == InitConc /\ [][NextConc]_vars

-----------------------------------------------------------------------------
(* bot.py: the premium_subscription_checker background task.  run.py sets  *)
(* bot.premium_manager (or leaves it None) before bot.start; on_ready      *)
(* creates the task; close cancels it.  A sweep takes no time, a sleep     *)
(* ends exactly when its delay is over.                                    *)

\* what the steps of the bot leave alone
mgrVars == <<impl, played, now, dbUp, ret, lastEvent, enhVars, modVars, accVars>>

\* the clock advances in quarters of the sleep of the checker task
B_Step == sweep_interval \div 4

\* where the loop body goes after a sweep, had it no try / except
B_after_sweep_unguarded(outcome) == IF outcome = "raised" THEN "ended" ELSE "sleeping"

\* where the loop body goes after a sweep: an Exception is logged, then
\* await asyncio.sleep(3600)
B_after_sweep(outcome) == "sleeping"

\* run.py initialize_bot: bot.premium_manager = pm, or None when the
\* manager could not be initialized
B_initialize_bot(ok) ==
    /\ ~bot.initialized
    /\ bot' = [bot EXCEPT !.initialized = TRUE, !.premium_manager = ok]
    /\ UNCHANGED <<mgrVars, concVars, client, sideVars>>

\* on_ready: if self.premium_manager: create_background_task(...), which
\* cancels a running task of that name and starts a new one
B_on_ready ==
    /\ bot.initialized
    /\ ~bot.closed
    /\ bot' = IF bot.premium_manager
              THEN [bot EXCEPT !.task = "loop", !.fresh = TRUE, !.waited = 0]
              ELSE bot
    /\ UNCHANGED <<mgrVars, concVars, client, sideVars>>

\* one pass of the while loop of check_expired_premium_subscriptions up to
\* its sleep: the test of is_closed, then the sweep, which returns or raises
B_check_expired_premium_subscriptions(outcome) ==
    /\ bot.task = "loop"
    /\ bot' = IF bot.closed
              THEN [bot EXCEPT !.task = "ended"]
              ELSE [bot EXCEPT !.task = B_after_sweep(outcome),
                               !.fresh = FALSE,
                               !.waited = 0,
                               !.turn = ~bot.turn,
                               !.last = outcome,
                               !.raised_seen = bot.raised_seen \/ outcome = "raised",
                               !.sweeps = IF bot.sweeps < MaxSweeps THEN bot.sweeps + 1
                                          ELSE bot.sweeps]
    /\ UNCHANGED <<mgrVars, concVars, client, sideVars>>

\* time passes while the task sleeps
B_sleep ==
    /\ bot.task = "sleeping"
    /\ bot.waited < sweep_interval
    /\ bot' = [bot EXCEPT !.waited = bot.waited + B_Step]
    /\ UNCHANGED <<mgrVars, concVars, client, sideVars>>

\* asyncio.sleep(3600) returns: back to the while test
B_wake ==
    /\ bot.task = "sleeping"
    /\ bot.waited = sweep_interval
    /\ bot' = [bot EXCEPT !.task = "loop"]
    /\ UNCHANGED <<mgrVars, concVars, client, sideVars>>

\* close: cancels every background task that is not done
B_close ==
    /\ ~bot.closed
    /\ bot' = [bot EXCEPT !.closed = TRUE,
                          !.task = IF bot.task \in {"loop", "sleeping"} THEN "cancelled"
                                   ELSE bot.task]
    /\ UNCHANGED <<mgrVars, concVars, client, sideVars>>

InitBot ==
    /\ Init
    /\ impl = "models"

NextBot ==
    \/ \E ok \in BOOLEAN : B_initialize_bot(ok)
    \/ B_on_ready
    \/ \E outcome \in {"ok", "raised"} : B_check_expired_premium_subscriptions(outcome)
    \/ B_sleep
    \/ B_wake
    \/ B_close

\* the event loop runs a task that is ready, and time passes
SpecBot ==
    /\ InitBot
    /\ [][NextBot]_vars
    /\ WF_vars(\E outcome \in {"ok", "raised"} : B_check_expired_premium_subscriptions(outcome))
    /\ WF_vars(B_sleep)
    /\ WF_vars(B_wake)

-----------------------------------------------------------------------------
(* safe_mongodb.py: SafeMongoDBClient serving one call at a time.  A step  *)
(* is what the call does between two awaits; the driver answers an await   *)
(* by returning or by raising.                                             *)

\* the exception classes the driver raises here, each with its base class
\* (pymongo.errors; TypeError is a plain Exception)
K_Base == [ConnectionFailure |-> "PyMongoError",
           AutoReconnect |-> "ConnectionFailure",
           ServerSelectionTimeoutError |-> "AutoReconnect",
           OperationFailure |-> "PyMongoError",
           PyMongoError |-> "Exception",
           TypeError |-> "Exception"]

RECURSIVE K_isinstance(_, _)
K_isinstance(e, cls) ==
    \/ e = cls
    \/ e \in DOMAIN K_Base /\ K_isinstance(K_Base[e], cls)

\* what connect's list_collection_names raises when the server is away or the
\* client cannot be built
K_ConnectErrors == {"ConnectionFailure", "ServerSelectionTimeoutError", "TypeError"}

\* what an operation's driver call raises: the connection is lost, the query
\* is malformed, the document is malformed
K_OpErrors == {"AutoReconnect", "OperationFailure", "TypeError"}
K_Malformed == {"OperationFailure", "TypeError"}

K_DataOps == {"insert_one", "insert_many", "find_one", "find_many", "update_one",
              "update_many", "delete_one", "delete_many", "count_documents",
              "collection_exists", "aggregate"}
K_Ops == {"connect"} \cup K_DataOps

\* the data= argument of the operation's error_result
K_error_data(op) ==
    CASE op = "insert_one" -> "document"
      [] op = "insert_many" -> "documents"
      [] op \in {"update_one", "update_many"} -> "query_update"
      [] op \in {"delete_one", "delete_many"} -> "query"
      [] OTHER -> "none"

success_result == [success |-> TRUE, error_type |-> "none", data |-> "result", raised |-> FALSE]
error_result(error_type, data) ==
    [success |-> FALSE, error_type |-> error_type, data |-> data, raised |-> FALSE]

\* the except clauses of connect, in their order
K_connect_error_type(e) ==
    IF K_isinstance(e, "ConnectionFailure") THEN "ConnectionFailure"
    ELSE IF K_isinstance(e, "ServerSelectionTimeoutError") THEN "ServerSelectionTimeoutError"
    ELSE e

\* the except clauses of an operation: PyMongoError, then Exception
K_op_error_type(e) == e

\* the test of _ensure_connected
K_is_connected == client.connected /\ client.has_client /\ client.has_database

\* the loop of _ensure_connected, were it to go round once more
K_last_attempt_late(attempt) == attempt = max_reconnect_attempts

\* the loop of _ensure_connected is at its last pass: range(3) is used up
K_last_attempt(attempt) == attempt = max_reconnect_attempts - 1

\* a call of a public operation starts
K_call(op) ==
    /\ client.pc \in {"idle", "returned"}
    /\ client' = [client EXCEPT !.op = op, !.attempt = 0, !.connects = 0, !.fails = 0,
                                !.slept = 0, !.tries = 0, !.thrown = "none",
                                !.result = NoResult, !.closes = 0,
                                !.pc = IF op = "connect" THEN "connect"
                                       ELSE IF K_is_connected THEN "execute"
                                       ELSE "ensure"]
    /\ UNCHANGED <<mgrVars, concVars, bot, sideVars>>

\* connect, called by the user: success, or the error result of its handlers
K_connect(outcome) ==
    /\ client.pc = "connect"
    /\ client' = [client EXCEPT
                     !.has_client = TRUE,
                     !.has_database = TRUE,
                     !.connected = (outcome = "ok") \/ client.connected,
                     !.connects = client.connects + 1,
                     !.thrown = IF outcome = "ok" THEN "none" ELSE outcome,
                     !.result = IF outcome = "ok" THEN success_result
                                ELSE error_result(K_connect_error_type(outcome), "none"),
                     !.pc = "returned"]
    /\ UNCHANGED <<mgrVars, concVars, bot, sideVars>>

\* one pass of the loop of _ensure_connected: result = await self.connect()
K_ensure_connected(outcome) ==
    /\ client.pc = "ensure"
    /\ client' =
          IF outcome = "ok"
          THEN [client EXCEPT !.has_client = TRUE, !.has_database = TRUE,
                              !.connected = TRUE,
                              !.connects = client.connects + 1,
                              !.thrown = "none",
                              !.pc = "execute"]
          ELSE [client EXCEPT !.has_client = TRUE, !.has_database = TRUE,
                              !.connects = client.connects + 1,
                              !.fails = client.fails + 1,
                              !.thrown = outcome,
                              !.result = IF K_last_attempt(client.attempt)
                                         THEN error_result("ReconnectionFailure", "none")
                                         ELSE client.result,
                              !.pc = IF K_last_attempt(client.attempt) THEN "returned"
                                     ELSE "sleep"]
    /\ UNCHANGED <<mgrVars, concVars, bot, sideVars>>

\* await asyncio.sleep(self._reconnect_delay), then the next pass
K_sleep ==
    /\ client.pc = "sleep"
    /\ client' = [client EXCEPT !.slept = client.slept + reconnect_delay,
                                !.attempt = client.attempt + 1,
                                !.pc = "ensure"]
    /\ UNCHANGED <<mgrVars, concVars, bot, sideVars>>

\* the driver call of the operation inside its try
K_execute(outcome) ==
    /\ client.pc = "execute"
    /\ client' = [client EXCEPT
                     !.tries = client.tries + 1,
                     !.thrown = IF outcome = "ok" THEN "none" ELSE outcome,
                     !.result = IF outcome = "ok" THEN success_result
                                ELSE error_result(K_op_error_type(outcome),
                                                  K_error_data(client.op)),
                     !.pc = "returned"]
    /\ UNCHANGED <<mgrVars, concVars, bot, sideVars>>

\* close, were it to leave the database handle in place
K_close_keeps_database ==
    /\ client.pc \in {"idle", "returned"}
    /\ client.closes < MaxCloses
    /\ client' = IF client.has_client
                 THEN [client EXCEPT !.connected = FALSE,
                                     !.closes = client.closes + 1]
                 ELSE [client EXCEPT !.closes = client.closes + 1]
    /\ UNCHANGED <<mgrVars, concVars, bot, sideVars>>

\* close: with a client object it closes it (closing a closed driver client
\* is a no-op) and resets _connected and _database; without one it does
\* nothing.  self.client itself is kept.
K_close ==
    /\ client.pc \in {"idle", "returned"}
    /\ client.closes < MaxCloses
    /\ client' = IF client.has_client
                 THEN [client EXCEPT !.connected = FALSE, !.has_database = FALSE,
                                     !.closes = client.closes + 1]
                 ELSE [client EXCEPT !.closes = client.closes + 1]
    /\ UNCHANGED <<mgrVars, concVars, bot, sideVars>>

InitClient ==
    /\ Init
    /\ impl = "access"

NextClient ==
    \/ \E op \in K_Ops : K_call(op)
    \/ \E outcome \in {"ok"} \cup K_ConnectErrors : K_connect(outcome)
    \/ \E outcome \in {"ok"} \cup K_ConnectErrors : K_ensure_connected(outcome)
    \/ K_sleep
    \/ \E outcome \in {"ok"} \cup K_OpErrors : K_execute(outcome)
    \/ K_close

\* the event loop resumes the call whenever the driver has answered or the
\* delay is over
SpecClient ==
    /\ InitClient
    /\ [][NextClient]_vars
    /\ WF_vars(\E outcome \in {"ok"} \cup K_ConnectErrors : K_connect(outcome))
    /\ WF_vars(\E outcome \in {"ok"} \cup K_ConnectErrors : K_ensure_connected(outcome))
    /\ WF_vars(K_sleep)
    /\ WF_vars(\E outcome \in {"ok"} \cup K_OpErrors : K_execute(outcome))

-----------------------------------------------------------------------------
\* what the components modelled apart from the managers leave alone
coreVars == <<mgrVars, concVars, bot, client>>
mmFrame == <<coreVars, registry, sw, gate, sync, bg>>
registryFrame == <<coreVars, mm, sw, gate, sync, bg>>
swFrame == <<impl, played, dbUp, ret, lastEvent, enhVars, accVars, user_docs,
             concVars, bot, client, mm, registry, gate, sync, bg>>
gateFrame == <<coreVars, mm, registry, sw, sync, bg>>
syncFrame == <<coreVars, mm, registry, sw, gate, bg>>
bgFrame == <<coreVars, mm, registry, sw, gate, sync>>

-----------------------------------------------------------------------------
(* mongodb_models.py: MongoModel, one record object held by one caller and  *)
(* the collection of its class.  A field value is [t |-> type, v |-> ...]:  *)
(* a string, the wrapper {'$date': milliseconds}, a native datetime (in     *)
(* microseconds) or an ObjectId.  A document is a function from field names *)
(* to values; a record is its _id (None or Some) and its other attributes.  *)

D_Str(n) == [t |-> "str", v |-> n]
D_DateWrapper(ms) == [t |-> "$date", v |-> ms]
D_Datetime(us) == [t |-> "datetime", v |-> us]
D_Oid(n) == [t |-> "oid", v |-> n]

\* datetime.datetime.fromtimestamp(value['$date'] / 1000.0)
D_fromtimestamp(ms) == D_Datetime(ms * 1000)

\* the attribute names of the records, one of them private
D_AttrNames == {"name", "expires_at", "_rev"}
D_Private == {k \in D_AttrNames : k = "_rev"}
D_Millis == {1500}
D_Values == {D_Str(1), D_Str(2)} \cup {D_DateWrapper(ms) : ms \in D_Millis}
               \cup {D_Datetime(ms * 1000) : ms \in D_Millis}

\* restriction of a document to some of its keys
D_Only(d, keys) == [k \in (DOMAIN d) \cap keys |-> d[k]]

\* MongoModel.__init__(**kwargs)
D_init(kwargs) ==
    [_id |-> IF "_id" \in DOMAIN kwargs THEN Some(kwargs["_id"]) ELSE None,
     attrs |-> D_Only(kwargs, (DOMAIN kwargs) \ {"_id"})]

\* MongoModel.to_dict
to_dict(r) ==
    (IF r._id /= None THEN [k \in {"_id"} |-> Get(r._id)] ELSE <<>>)
       @@ D_Only(r.attrs, {k \in DOMAIN r.attrs : k \notin D_Private})

\* MongoModel.from_dict, were it to keep the wrapper
from_dict_raw(data) == D_init(data)

\* MongoModel.from_dict
from_dict(data) ==
    D_init([k \in DOMAIN data |->
               IF data[k].t = "$date" THEN D_fromtimestamp(data[k].v) ELSE data[k]])

\* the documents of the collection, by the number of their ObjectId
D_Rows == 1..MaxRows
D_Free == {n \in D_Rows : n \notin DOMAIN mm.collection}

\* update_one(collection_name, {"_id": id}, {"$set": data}): the matched
\* document takes the fields of data and keeps its other fields
D_update_one(coll, n, data) ==
    IF n \in DOMAIN coll THEN [coll EXCEPT ![n] = data @@ coll[n]] ELSE coll

\* insert_one(collection_name, data): the driver generates the _id
D_insert_one(coll, n, data) ==
    coll @@ [k \in {n} |-> [f \in {"_id"} |-> D_Oid(n)] @@ data]

\* save: self._id after an insert answered by result, were it not back-filled
D_backfill_skipped(r, ok, n) == r._id

\* save: self._id after an insert answered by result
D_backfill(r, ok, n) == IF ok THEN Some(D_Oid(n)) ELSE r._id

\* what a finder returns: an empty list, None, a number, a list of records or
\* documents, a record
D_EmptyList == [kind |-> "list", v |-> <<>>]
D_None == [kind |-> "None", v |-> 0]
D_Int(n) == [kind |-> "int", v |-> n]
D_List(l) == [kind |-> "list", v |-> l]
D_Record(r) == [kind |-> "record", v |-> r]

D_Ret(op, error, inserted, value) ==
    [op |-> op, error |-> error, raised |-> FALSE, inserted |-> inserted, value |-> value]

\* the caller constructs a record that has no identity
D_new(kwargs) ==
    /\ mm.record = None
    /\ mm' = [mm EXCEPT !.record = Some(D_init(kwargs)),
                        !.ret = D_Ret("new", FALSE, FALSE, D_None)]
    /\ UNCHANGED mmFrame

\* another writer stores the first document of the collection
D_external_insert(doc) ==
    /\ mm.collection = <<>>
    /\ mm.record = None
    /\ LET n == CHOOSE k \in D_Free : \A j \in D_Free : k <= j
       IN mm' = [mm EXCEPT !.collection = D_insert_one(mm.collection, n, doc),
                           !.ret = D_Ret("external", FALSE, FALSE, D_None)]
    /\ UNCHANGED mmFrame

\* the caller sets a public attribute of the record
D_setattr(k, v) ==
    /\ mm.record /= None
    /\ k \notin D_Private
    /\ IF k \in DOMAIN Get(mm.record).attrs THEN Get(mm.record).attrs[k] /= v ELSE TRUE
    /\ mm' = [mm EXCEPT !.record = Some([Get(mm.record) EXCEPT
                                            !.attrs = [j \in {k} |-> v] @@ @]),
                        !.ret = D_Ret("setattr", FALSE, FALSE, D_None)]
    /\ UNCHANGED mmFrame

\* MongoModel.save; ok says whether the access layer's call succeeded
D_save(ok) ==
    /\ mm.record /= None
    /\ mm.saves < MaxSaves
    /\ LET r == Get(mm.record)
           data == to_dict(r)
       IN IF r._id /= None
          THEN mm' = [mm EXCEPT
                         !.collection = IF ok THEN D_update_one(@, Get(r._id).v, data)
                                        ELSE @,
                         !.saves = @ + 1,
                         !.saved = IF ok THEN @ + 1 ELSE @,
                         !.ret = D_Ret("save", ~ok, FALSE, D_None)]
          ELSE /\ D_Free /= {}
               /\ LET n == CHOOSE k \in D_Free : \A j \in D_Free : k <= j
                  IN mm' = [mm EXCEPT
                               !.collection = IF ok THEN D_insert_one(@, n, data) ELSE @,
                               !.record = Some([r EXCEPT !._id = D_backfill(r, ok, n)]),
                               !.mine = IF ok THEN @ \cup {n} ELSE @,
                               !.saves = @ + 1,
                               !.saved = IF ok THEN @ + 1 ELSE @,
                               !.ret = D_Ret("save", ~ok, ok, D_None)]
    /\ UNCHANGED mmFrame

\* what a finder returns when the access layer answered with an error,
\* were it to hand the error result on
D_on_error_passed(default) == [kind |-> "SafeMongoDBResult", v |-> 0]

\* what a finder returns when result.success is false
D_on_error(default) == default

\* MongoModel.get_by_id; the caller keeps the record it gets
D_get_by_id(n, ok) ==
    /\ mm.record = None
    /\ LET found == ok /\ n \in DOMAIN mm.collection
       IN mm' = [mm EXCEPT
                    !.record = IF found THEN Some(from_dict(mm.collection[n])) ELSE None,
                    !.mine = IF found THEN {n} ELSE {},
                    !.loaded = found,
                    !.ret = D_Ret("get_by_id", ~ok, FALSE,
                                  IF found THEN D_Record(from_dict(mm.collection[n]))
                                  ELSE IF ok THEN D_None ELSE D_on_error(D_None))]
    /\ UNCHANGED mmFrame

\* the documents an access-layer query for name = v answers with, in _id order
D_Matching(v) ==
    LET hit(n) == n \in DOMAIN mm.collection
                     /\ "name" \in DOMAIN mm.collection[n]
                     /\ mm.collection[n]["name"] = v
        RECURSIVE upto(_)
        upto(n) == IF n = 0 THEN <<>>
                   ELSE IF hit(n) THEN Append(upto(n - 1), mm.collection[n])
                   ELSE upto(n - 1)
    IN upto(MaxRows)

D_Map(docs) == [i \in DOMAIN docs |-> from_dict(docs[i])]

\* MongoModel.find
D_find(v, ok) ==
    /\ mm' = [mm EXCEPT !.ret = D_Ret("find", ~ok, FALSE,
                                      IF ok /\ D_Matching(v) /= <<>>
                                      THEN D_List(D_Map(D_Matching(v)))
                                      ELSE IF ok THEN D_EmptyList
                                      ELSE D_on_error(D_EmptyList))]
    /\ UNCHANGED mmFrame

\* MongoModel.find_one
D_find_one(v, ok) ==
    /\ mm' = [mm EXCEPT !.ret = D_Ret("find_one", ~ok, FALSE,
                                      IF ok /\ D_Matching(v) /= <<>>
                                      THEN D_Record(from_dict(Head(D_Matching(v))))
                                      ELSE IF ok THEN D_None ELSE D_on_error(D_None))]
    /\ UNCHANGED mmFrame

\* MongoModel.count
D_count(v, ok) ==
    /\ mm' = [mm EXCEPT !.ret = D_Ret("count", ~ok, FALSE,
                                      IF ok THEN D_Int(Len(D_Matching(v)))
                                      ELSE D_on_error(D_Int(0)))]
    /\ UNCHANGED mmFrame

\* MongoModel.aggregate with a $match pipeline: the documents as they are
D_aggregate(v, ok) ==
    /\ mm' = [mm EXCEPT !.ret = D_Ret("aggregate", ~ok, FALSE,
                                      IF ok /\ D_Matching(v) /= <<>>
                                      THEN D_List(D_Matching(v))
                                      ELSE IF ok THEN D_EmptyList
                                      ELSE D_on_error(D_EmptyList))]
    /\ UNCHANGED mmFrame

\* the keyword arguments and the stored documents of a run
D_Kwargs == {d \in UNION {[ks -> D_Values] : ks \in SUBSET D_AttrNames} :
                /\ "name" \in DOMAIN d /\ d["name"] = D_Str(1)
                /\ "_rev" \in DOMAIN d => d["_rev"] = D_Str(2)
                /\ "expires_at" \in DOMAIN d => d["expires_at"].t /= "str"}
D_NewKwargs == {d \in D_Kwargs : \A k \in DOMAIN d : d[k].t /= "$date"}

InitModel ==
    /\ Init
    /\ impl = "models"

NextModel ==
    \/ \E kwargs \in D_NewKwargs : D_new(kwargs)
    \/ \E doc \in D_Kwargs : D_external_insert(doc)
    \/ \E k \in D_AttrNames, v \in {D_Str(1), D_Str(2)} : D_setattr(k, v)
    \/ \E ok \in BOOLEAN : D_save(ok)
    \/ \E n \in D_Rows, ok \in BOOLEAN : D_get_by_id(n, ok)
    \/ \E v \in {D_Str(1), D_Str(2)}, ok \in BOOLEAN : D_find(v, ok)
    \/ \E v \in {D_Str(1), D_Str(2)}, ok \in BOOLEAN : D_find_one(v, ok)
    \/ \E v \in {D_Str(1), D_Str(2)}, ok \in BOOLEAN : D_count(v, ok)
    \/ \E v \in {D_Str(1), D_Str(2)}, ok \in BOOLEAN : D_aggregate(v, ok)

SpecModel == InitModel /\ [][NextModel]_vars

-----------------------------------------------------------------------------
(* premium_feature_access.py: PremiumFeatureRegistry.  features is the dict *)
(* of the registry in insertion order, each feature with its name and its  *)
(* required_level.                                                         *)

G_DefaultNames == <<"advanced_logging", "custom_commands", "auto_moderation",
                    "advanced_analytics", "custom_integrations">>
G_Names == {G_DefaultNames[i] : i \in {j \in DOMAIN G_DefaultNames : j <= MaxFeatures}}
\* the levels a caller asks for: the FeatureAccessLevel values and one below
\* and one above them
G_AskedLevels == A_Levels \cup {FREE - 1, Cardinality(A_Levels)}

\* self.features[feature.name] = feature
register_feature(features, feature) ==
    IF \E i \in DOMAIN features : features[i].name = feature.name
    THEN [i \in DOMAIN features |->
             IF features[i].name = feature.name THEN feature ELSE features[i]]
    ELSE Append(features, feature)

\* the test of get_features_by_level, were it to compare for equality
G_unlocked_exact(feature, level) == feature.required_level = level

\* the test of get_features_by_level
G_unlocked(feature, level) == feature.required_level <= level

\* [feature for feature in self.features.values() if feature.required_level <= level]
get_features_by_level(features, level) ==
    LET RECURSIVE pick(_)
        pick(n) == IF n = 0 THEN <<>>
                   ELSE IF G_unlocked(features[n], level)
                        THEN Append(pick(n - 1), features[n])
                        ELSE pick(n - 1)
    IN pick(Len(features))

G_register_feature(name, required_level) ==
    /\ registry' = [registry EXCEPT
                       !.features = register_feature(@, [name |-> name,
                                                        required_level |-> required_level]),
                       !.asked = FALSE, !.level = 0, !.returned = <<>>]
    /\ registry'.features /= registry.features
    /\ UNCHANGED registryFrame

G_get_features_by_level(level) ==
    /\ registry' = [registry EXCEPT
                       !.asked = TRUE, !.level = level,
                       !.returned = get_features_by_level(registry.features, level)]
    /\ UNCHANGED registryFrame

InitRegistry ==
    /\ Init
    /\ impl = "access"

NextRegistry ==
    \/ \E name \in G_Names, l \in A_Levels : G_register_feature(name, l)
    \/ \E level \in G_AskedLevels : G_get_features_by_level(level)

SpecRegistry == InitRegistry /\ [][NextRegistry]_vars

-----------------------------------------------------------------------------
(* premium_manager.py: check_and_remove_expired and add_guild_premium as    *)
(* coroutines of one event loop.  A coroutine is suspended at each await   *)
(* of a store call; the store applies the call (find, write) at some point *)
(* and the coroutine resumes later.  The store is reachable throughout.    *)

\* the guilds a sweep that has read `read` still has to look at, lowest first
W_Next(todo) == CHOOSE i \in todo : \A j \in todo : i <= j

\* the guilds of the list the loop acts on: tier /= NONE
W_Acts(read, i) == Get(read[i]).tier /= TierNONE

\* the record the sweep saves: the one its find returned
W_SweepRecord(read, i) == Get(read[i])

\* check_and_remove_expired is called
W_call_check_and_remove_expired ==
    /\ sw.sweep.pc \in {"idle", "done"}
    /\ sw' = [sw EXCEPT !.sweep = [pc |-> "find", read |-> <<>>, todo |-> {},
                                   cur |-> 0, count |-> 0],
                        !.overlap = {}]
    /\ UNCHANGED <<now, guild_docs>>
    /\ M_CacheSame
    /\ UNCHANGED swFrame

\* the store answers PremiumGuild.find({"expires_at": {"$lt": now}}); the
\* loop skips the guilds whose tier is NONE and reaches its first save
W_sweep_find ==
    /\ sw.sweep.pc = "find"
    /\ LET ids == M_ExpiredQuery(guild_docs)
           read == [i \in ids |-> guild_docs[i]]
           todo == {i \in ids : W_Acts(read, i)}
       IN sw' = [sw EXCEPT !.sweep.read = read,
                           !.sweep.todo = todo,
                           !.sweep.cur = IF todo = {} THEN 0 ELSE W_Next(todo),
                           !.sweep.pc = IF todo = {} THEN "done" ELSE "save"]
    /\ UNCHANGED <<now, guild_docs>>
    /\ M_CacheSame
    /\ UNCHANGED swFrame

\* the store applies guild.save() of the sweep: update by _id, $set of the
\* whole record
W_sweep_write ==
    /\ sw.sweep.pc = "save"
    /\ LET i == sw.sweep.cur
       IN guild_docs' = [guild_docs EXCEPT
                            ![i] = Some(M_DowngradedGuild(W_SweepRecord(sw.sweep.read, i)))]
    /\ sw' = [sw EXCEPT !.sweep.pc = "resume"]
    /\ UNCHANGED now
    /\ M_CacheSame
    /\ UNCHANGED swFrame

\* the sweep resumes after its save: the guild leaves premium_guilds and
\* feature_cache, the count goes up, the loop goes on to the next guild
W_sweep_resume ==
    /\ sw.sweep.pc = "resume"
    /\ LET i == sw.sweep.cur
           todo == sw.sweep.todo \ {i}
       IN /\ M_CacheRemove("guild", i)
          /\ sw' = [sw EXCEPT !.sweep.todo = todo,
                              !.sweep.count = @ + 1,
                              !.sweep.cur = IF todo = {} THEN 0 ELSE W_Next(todo),
                              !.sweep.pc = IF todo = {} THEN "done" ELSE "save"]
    /\ UNCHANGED <<now, guild_docs>>
    /\ UNCHANGED swFrame

\* add_guild_premium(guild_id, tier) is called, duration_days left to default
W_call_add_guild_premium(id, tier) ==
    /\ sw.grant.pc \in {"idle", "done"}
    /\ <<"guild", id>> \in played
    /\ sw' = [sw EXCEPT !.grant = [pc |-> "find", id |-> id, tier |-> tier,
                                   rec |-> <<>>, ok |-> FALSE],
                        !.overlap = @ \ {id}]
    /\ UNCHANGED <<now, guild_docs>>
    /\ M_CacheSame
    /\ UNCHANGED swFrame

\* the store answers get_by_guild_id; the grant sets tier, expiry and
\* features on the record and reaches its save
W_grant_find ==
    /\ sw.grant.pc = "find"
    /\ LET found == M_get_by_id("guild", sw.grant.id)
           doc == M_GrantDoc("guild", IF found /= None THEN Get(found) ELSE M_NewDoc,
                             sw.grant.tier, default_duration)
       IN sw' = [sw EXCEPT !.grant.rec = Some(doc), !.grant.pc = "save"]
    /\ UNCHANGED <<now, guild_docs>>
    /\ M_CacheSame
    /\ UNCHANGED swFrame

\* the store applies guild.save() of the grant
W_grant_write ==
    /\ sw.grant.pc = "save"
    /\ LET i == sw.grant.id
       IN /\ guild_docs' = [guild_docs EXCEPT ![i] = sw.grant.rec]
          /\ sw' = [sw EXCEPT
                       !.grant.pc = "resume",
                       !.grant.ok = M_SaveOk,
                       !.granted = [k \in {i} |-> sw.grant.rec] @@ @,
                       !.overlap = IF sw.sweep.pc = "save" /\ i \in sw.sweep.todo
                                   THEN @ \cup {i} ELSE @]
    /\ UNCHANGED now
    /\ M_CacheSame
    /\ UNCHANGED swFrame

\* the grant resumes after its save: premium_guilds.add, feature_cache
W_grant_resume ==
    /\ sw.grant.pc = "resume"
    /\ IF sw.grant.ok
       THEN M_CacheAdd("guild", sw.grant.id, Get(sw.grant.rec).enabled_features)
       ELSE M_CacheSame
    /\ sw' = [sw EXCEPT !.grant.pc = "done"]
    /\ UNCHANGED <<now, guild_docs>>
    /\ UNCHANGED swFrame

\* no store call is under way
W_Quiet == sw.sweep.pc \in {"idle", "done"} /\ sw.grant.pc \in {"idle", "done"}

\* time passes between calls; a store call takes no time on this clock
W_Tick ==
    /\ W_Quiet
    /\ Tick
    /\ UNCHANGED sw

W_Jump ==
    /\ W_Quiet
    /\ Jump
    /\ UNCHANGED sw

InitSweep ==
    /\ Init
    /\ impl = "models"

NextSweep ==
    \/ W_call_check_and_remove_expired
    \/ W_sweep_find
    \/ W_sweep_write
    \/ W_sweep_resume
    \/ \E i \in Ids, tier \in {1, 2} : W_call_add_guild_premium(i, tier)
    \/ W_grant_find
    \/ W_grant_write
    \/ W_grant_resume
    \/ W_Tick
    \/ W_Jump

SpecSweep == InitSweep /\ [][NextSweep]_vars

-----------------------------------------------------------------------------
(* bot.py: Bot.global_command_check, the check run before every command.    *)
(* A call is described by its context: whether the author is the owner,     *)
(* whether the command has a cog and what the cog sets, whether it comes     *)
(* from a guild or a DM, whether bot.premium_manager is set, and what the    *)
(* manager's check answers (True, False, or it raises).                      *)

Q_Answers == {"True", "False", "raises"}
Q_FeatureArgs == {"none", "advanced_logging"}

\* what the check returns when self.premium_manager is not set, were it to
\* let the command through
Q_no_manager_open == "True"

\* what the check returns when self.premium_manager is not set
Q_no_manager == "False"

\* the result of 'return await check(...)' and of 'if not await check(...)'
Q_checked(answer) == IF answer = "raises" THEN "raised" ELSE answer

Q_global_command_check(owner, cog, premium_required, premium_feature, guild, manager, answer) ==
    /\ LET in == [NoGate EXCEPT !.called = TRUE, !.owner = owner, !.cog = cog,
                                !.premium_required = premium_required,
                                !.premium_feature = premium_feature,
                                !.guild = guild, !.manager = manager,
                                !.answer = answer]
       IN gate' =
            IF owner THEN [in EXCEPT !.result = "True"]
            ELSE IF ~cog THEN [in EXCEPT !.result = "True"]
            ELSE IF ~(premium_required \/ premium_feature /= "none")
                 THEN [in EXCEPT !.result = "True"]
            ELSE IF ~guild
                 THEN IF ~manager THEN [in EXCEPT !.result = Q_no_manager]
                      ELSE [in EXCEPT !.checked = "is_user_premium",
                                      !.result = Q_checked(answer)]
            ELSE IF premium_feature /= "none"
                 THEN IF ~manager THEN [in EXCEPT !.result = Q_no_manager]
                      ELSE [in EXCEPT !.checked = "can_use_feature",
                                      !.sent = (answer = "False"),
                                      !.result = Q_checked(answer)]
            ELSE IF ~manager THEN [in EXCEPT !.result = Q_no_manager]
                 ELSE [in EXCEPT !.checked = "is_guild_premium",
                                 !.sent = (answer = "False"),
                                 !.result = Q_checked(answer)]
    /\ UNCHANGED gateFrame

InitGate ==
    /\ Init
    /\ impl = "models"

NextGate ==
    \E owner, cog, premium_required, guild, manager \in BOOLEAN,
       premium_feature \in Q_FeatureArgs, answer \in Q_Answers :
          Q_global_command_check(owner, cog, premium_required, premium_feature, guild,
                                 manager, answer)

SpecGate == InitGate /\ [][NextGate]_vars

-----------------------------------------------------------------------------
(* bot.py: Bot.sync_commands called from several coroutines of the event    *)
(* loop (on_ready runs again after every reconnect).  A coroutine runs      *)
(* without interruption up to its await of the library's sync_commands.     *)

\* how the awaited super().sync_commands ends: it returns, it raises an
\* Exception, or the coroutine is cancelled while it waits
Y_Outcomes == {"synced", "error", "cancelled"}

\* _sync_in_progress after the call, were it reset only after a sync that
\* returned
Y_finally_on_success(outcome) == outcome /= "synced"

\* _sync_in_progress after the call: the finally clause
Y_finally(outcome) == FALSE

\* sync_commands up to its await: the test of the flag, the early return or
\* the flag set and the library call started
Y_call_sync_commands(t) ==
    /\ sync.callers[t].pc \in {"idle", "done"}
    /\ sync' = IF sync.in_progress
               THEN [sync EXCEPT !.callers[t] = [pc |-> "done", result |-> "skipped"]]
               ELSE [sync EXCEPT !.in_progress = TRUE,
                                 !.callers[t] = [pc |-> "syncing", result |-> "none"]]
    /\ UNCHANGED syncFrame

\* the awaited library call ends; except and finally run, the call returns
Y_sync_ends(t, outcome) ==
    /\ sync.callers[t].pc = "syncing"
    /\ sync' = [sync EXCEPT !.in_progress = Y_finally(outcome),
                            !.callers[t] = [pc |-> "done", result |-> outcome]]
    /\ UNCHANGED syncFrame

InitSync ==
    /\ Init
    /\ impl = "models"

NextSync ==
    \/ \E t \in Y_Callers : Y_call_sync_commands(t)
    \/ \E t \in Y_Callers, outcome \in Y_Outcomes : Y_sync_ends(t, outcome)

\* the library call a coroutine awaits ends at some time
SpecSync ==
    /\ InitSync
    /\ [][NextSync]_vars
    /\ WF_vars(\E t \in Y_Callers, outcome \in Y_Outcomes : Y_sync_ends(t, outcome))

-----------------------------------------------------------------------------
(* bot.py: bg_tasks, create_background_task and the background task        *)
(* monitor.  A task is pending (created, not yet run), running (inside its *)
(* coroutine), or done: failed (ended with an exception), finished or       *)
(* cancelled.  A coroutine object is fresh (never awaited), running, or     *)
(* exhausted (it has ended); a task made from an exhausted coroutine fails  *)
(* at its first step with RuntimeError (cannot reuse already awaited        *)
(* coroutine).                                                              *)

Z_NotDone == {"pending", "running"}

\* the coroutine the monitor hands to create_background_task: task_info["coro"]
Z_restart_coro(entry) == entry.coro

\* create_background_task(coro, name, critical): an old task of that name
\* that is not done is cancelled, the entry is replaced
Z_Entry(coro, critical, restarted) ==
    [state |-> "pending", critical |-> critical, coro |-> coro, restarted |-> restarted]

\* on_ready: the monitor is started, then the checker with a new coroutine
Z_on_ready ==
    /\ ~bg.closed
    /\ bg' = [bg EXCEPT !.monitor = TRUE,
                        !.tasks["premium_subscription_checker"] =
                              Z_Entry("fresh", TRUE, FALSE)]
    /\ UNCHANGED bgFrame

\* some other caller registers a task with a new coroutine
Z_create_background_task(name, critical) ==
    /\ ~bg.closed
    /\ name /= "premium_subscription_checker"
    /\ bg' = [bg EXCEPT !.tasks[name] = Z_Entry("fresh", critical, FALSE)]
    /\ UNCHANGED bgFrame

\* the event loop runs the first step of a pending task
Z_task_start(name) ==
    /\ bg.tasks[name].state = "pending"
    /\ bg' = IF bg.tasks[name].coro = "fresh"
             THEN [bg EXCEPT !.tasks[name].state = "running",
                             !.tasks[name].coro = "running"]
             ELSE [bg EXCEPT !.tasks[name].state = "failed"]
    /\ UNCHANGED bgFrame

\* a running task ends with an exception
Z_task_raises(name) ==
    /\ bg.tasks[name].state = "running"
    /\ bg' = [bg EXCEPT !.tasks[name].state = "failed",
                        !.tasks[name].coro = "exhausted"]
    /\ UNCHANGED bgFrame

\* a running task returns
Z_task_returns(name) ==
    /\ bg.tasks[name].state = "running"
    /\ bg' = [bg EXCEPT !.tasks[name].state = "finished",
                        !.tasks[name].coro = "exhausted"]
    /\ UNCHANGED bgFrame

\* what one pass of the monitor makes of an entry
Z_monitored(entry) ==
    IF entry.state = "failed"
    THEN IF entry.critical
         THEN Z_Entry(Z_restart_coro(entry), TRUE, TRUE)
         ELSE entry
    ELSE IF entry.state \in {"finished", "cancelled"} THEN Z_NoEntry
    ELSE entry

\* one pass of monitor_background_tasks over bg_tasks, up to its sleep
Z_monitor_pass ==
    /\ bg.monitor
    /\ ~bg.closed
    /\ bg' = [bg EXCEPT !.tasks = [n \in Z_Names |-> Z_monitored(bg.tasks[n])]]
    /\ UNCHANGED bgFrame

\* close: every task of bg_tasks that is not done is cancelled
Z_close ==
    /\ ~bg.closed
    /\ bg' = [bg EXCEPT !.closed = TRUE,
                        !.tasks = [n \in Z_Names |->
                                      IF bg.tasks[n].state \in Z_NotDone
                                      THEN [bg.tasks[n] EXCEPT !.state = "cancelled",
                                                               !.coro = "exhausted"]
                                      ELSE bg.tasks[n]]]
    /\ UNCHANGED bgFrame

InitBg ==
    /\ Init
    /\ impl = "models"

NextBg ==
    \/ Z_on_ready
    \/ \E n \in Z_Names, critical \in BOOLEAN : Z_create_background_task(n, critical)
    \/ \E n \in Z_Names : Z_task_start(n)
    \/ \E n \in Z_Names : Z_task_raises(n)
    \/ \E n \in Z_Names : Z_task_returns(n)
    \/ Z_monitor_pass
    \/ Z_close

\* the event loop runs every ready task, and the monitor wakes up from its
\* sleep of 60 s
SpecBg ==
    /\ InitBg
    /\ [][NextBg]_vars
    /\ \A n \in Z_Names : WF_vars(Z_task_start(n))
    /\ WF_vars(Z_monitor_pass)

-----------------------------------------------------------------------------
(* Vocabulary of the properties *)

\* the expires_at the store holds for a subject, None when it holds none
StoredExpiresAt(kind, id) ==
    CASE impl = "enhanced" ->
            IF E_Store(kind)[id] /= None THEN E_ParseExpires(Get(E_Store(kind)[id]))
            ELSE None
      [] impl = "models" ->
            IF M_Docs(kind)[id] /= None THEN Get(M_Docs(kind)[id]).expires_at ELSE None
      [] OTHER -> None

StoredExpired(kind, id) ==
    StoredExpiresAt(kind, id) /= None /\ Get(StoredExpiresAt(kind, id)) < now

\* the cached expires_at of the enhanced manager is in the past
CachedExpired(kind, id) ==
    /\ impl = "enhanced"
    /\ E_Cache(kind)[id] /= None
    /\ E_CacheExpired(Get(E_Cache(kind)[id]))

\* seconds since the subject's cache entry was written; -1 without an entry
CacheAge(kind, id) ==
    CASE impl = "enhanced" ->
            IF E_Cache(kind)[id] /= None THEN now - Get(E_Cache(kind)[id]).updated_at
            ELSE 0 - 1
      [] impl = "models" ->
            IF cachedAt[<<kind, id>>] /= None THEN now - Get(cachedAt[<<kind, id>>])
            ELSE 0 - 1
      [] impl = "access" ->
            IF kind = "guild" /\ cache_last_updated[id] /= None
            THEN now - Get(cache_last_updated[id]) ELSE 0 - 1

\* r is the result of one of the calls ops made for subject (kind, id)
IsCall(r, ops, kind, id) == r.op \in ops /\ r.kind = kind /\ r.id = id

\* the store holds a running subscription of the subject
StoredActive(kind, id) ==
    CASE impl = "enhanced" ->
            /\ E_Store(kind)[id] /= None
            /\ Get(E_Store(kind)[id]).status
            /\ ~StoredExpired(kind, id)
      [] impl = "models" ->
            /\ M_Docs(kind)[id] /= None
            /\ Get(M_Docs(kind)[id]).tier /= TierNONE
            /\ ~StoredExpired(kind, id)
      [] OTHER -> FALSE

-----------------------------------------------------------------------------
\* C1: for a subject whose stored expires_at is in the past, is_guild_premium /
\* is_user_premium return false and get_*_premium_tier returns 0, on every read.
C1_ExpiredReadsNegative ==
    [][\A k \in Kinds, i \in Ids :
          (StoredExpired(k, i) /\ IsCall(ret', {"is_premium", "get_tier"}, k, i))
             => (ret'.value = FALSE /\ ret'.num = 0)]_vars

\* C2 as stated: while the store is unreachable is_*_premium returns false for
\* every subject, never raising and never returning true.
C2_OutageAlwaysFalse ==
    (ret.op = "is_premium" /\ ~dbUp) => (ret.value = FALSE /\ ~ret.raised)

\* C2 amended: while the store is unreachable is_*_premium never raises, and it
\* returns true only for a verdict taken from the in-memory cache without any
\* store call; every read that has to call the store returns false.
C2_OutageFailsClosed ==
    (ret.op = "is_premium" /\ ~dbUp) =>
        /\ ~ret.raised
        /\ ret.value => (ret.fromCache /\ ~ret.queried)
        /\ ret.queried => ret.value = FALSE

\* an outage read of a subject the store holds as premium, answered false
C2_Witness ==
    /\ ret.op = "is_premium"
    /\ ~dbUp
    /\ ret.queried
    /\ ret.value = FALSE
    /\ StoredActive(ret.kind, ret.id)

\* C3: right after add_guild_premium(S, tier=2, duration_days=30) succeeded,
\* is_guild_premium(S) returns true from the cache without a store call, and
\* has_feature(f, guild_id=S) (can_use_feature(S, f) in premium_manager.py) is
\* true for every feature f of tier 2.
C3_WriteThrough ==
    [][(ret.op = "add_premium" /\ ret.value /\ ret.kind = "guild" /\ ret.tier = 2) =>
          /\ IsCall(ret', {"is_premium"}, "guild", ret.id) =>
                (ret'.value /\ ret'.fromCache /\ ~ret'.queried)
          /\ (/\ IsCall(ret', {"has_feature"}, "guild", ret.id)
              /\ ret'.feature \in premium_tiers(2)) => ret'.value
          /\ (/\ IsCall(ret', {"can_use_feature"}, "guild", ret.id)
              /\ ret'.feature \in M_Features
              /\ M_RequiredTier[ret'.feature] <= 2) => ret'.value]_vars

\* is_guild_premium answered from the entry a tier-2 grant wrote at this instant
C3_Witness ==
    /\ impl = "enhanced"
    /\ IsCall(ret, {"is_premium"}, "guild", 1)
    /\ ret.value /\ ret.fromCache /\ ~ret.queried
    /\ guild_premium_cache[1] /= None
    /\ Get(guild_premium_cache[1]).updated_at = now
    /\ Get(guild_premium_cache[1]).features = premium_tiers(2)

\* C4: no read returns a verdict taken from a cache entry older than cache_ttl
\* without querying the store.
C4_NoStaleCacheVerdict ==
    [][\A k \in Kinds, i \in Ids :
          (/\ IsCall(ret', {"is_premium", "get_tier", "has_feature", "can_use_feature",
                            "get_level"}, k, i)
           /\ ret'.fromCache)
             => CacheAge(k, i) <= cache_ttl]_vars

\* C5: once a bypassing writer has set a granted guild's stored expires_at to a
\* past time, the next is_guild_premium of that guild returns false.
C5_ExternalExpirySeenOnNextRead ==
    [][\A i \in Ids :
          (lastEvent[<<"guild", i>>] = "external" /\ IsCall(ret', {"is_premium"}, "guild", i))
             => ret'.value = FALSE]_vars

\* the subject is downgraded in the store
StoredNone(kind, id) ==
    CASE impl = "enhanced" ->
            E_Store(kind)[id] /= None => ~Get(E_Store(kind)[id]).status
      [] impl = "models" ->
            M_Docs(kind)[id] /= None => Get(M_Docs(kind)[id]).tier = TierNONE
      [] OTHER -> TRUE

\* C6: has_feature / can_use_feature returns false for every feature of a subject
\* whose cached or stored expires_at is in the past, and the read downgrades
\* the subject's record.
C6_ExpiredHasNoFeature ==
    [][\A k \in Kinds, i \in Ids :
          (/\ IsCall(ret', {"has_feature", "can_use_feature"}, k, i)
           /\ StoredExpired(k, i) \/ CachedExpired(k, i))
             => (ret'.value = FALSE /\ StoredNone(k, i)')]_vars

\* the store and the cache hold the subject as revoked
RevokedNow(kind, id) ==
    CASE impl = "enhanced" ->
            /\ E_Store(kind)[id] /= None
            /\ Get(E_Store(kind)[id]).features = {}
            /\ Get(E_Store(kind)[id]).expires_at = None
            /\ ~Get(E_Store(kind)[id]).status
            /\ E_Cache(kind)[id] = Some([status |-> FALSE, features |-> {},
                                         expires_at |-> None, updated_at |-> now])
      [] impl = "models" ->
            /\ M_Docs(kind)[id] /= None
            /\ Get(M_Docs(kind)[id]).tier = TierNONE
            /\ Get(M_Docs(kind)[id]).enabled_features = {}
            /\ Get(M_Docs(kind)[id]).expires_at = None
            /\ id \notin M_Cached(kind)
            /\ kind = "guild" => feature_cache[id] = None
      [] OTHER -> TRUE

\* C7: after remove_*_premium returned true the stored features are empty, the
\* stored expires_at is cleared and the cache entry is updated, and the next
\* is_premium read of the subject returns false.
C7_RevokeReachesNone ==
    /\ []((ret.op = "remove_premium" /\ ret.value) => RevokedNow(ret.kind, ret.id))
    /\ [][\A k \in Kinds, i \in Ids :
             (lastEvent[<<k, i>>] = "remove" /\ IsCall(ret', {"is_premium"}, k, i))
                => ret'.value = FALSE]_vars

\* the store and the cache hold exactly the grant (tier, now + duration)
GrantedNow(kind, id, tier, duration_days) ==
    LET expires_at == now + duration_days * DaySeconds
    IN CASE impl = "enhanced" ->
               /\ E_Store(kind)[id] =
                     Some([status |-> TRUE, tier |-> tier, features |-> premium_tiers(tier),
                           expires_at |-> Some(isoformat(expires_at))])
               /\ E_Cache(kind)[id] =
                     Some([status |-> TRUE, features |-> premium_tiers(tier),
                           expires_at |-> Some(expires_at), updated_at |-> now])
         [] impl = "models" ->
               /\ M_Docs(kind)[id] /= None
               /\ Get(M_Docs(kind)[id]).tier = tier
               /\ Get(M_Docs(kind)[id]).expires_at = Some(expires_at)
               /\ id \in M_Cached(kind)
               /\ kind = "guild" =>
                     /\ Get(M_Docs(kind)[id]).enabled_features =
                           {f \in M_Features : M_RequiredTier[f] <= tier}
                     /\ feature_cache[id] = Some(Get(M_Docs(kind)[id]).enabled_features)
         [] OTHER -> TRUE

\* C8: a successful add_*_premium with a valid tier leaves the subject ACTIVE
\* (tier, now + duration_days): the stored and the cached features are exactly
\* the feature set of the new tier, and the cache entry is the one of this call.
C8_GrantOverwrites ==
    (ret.op = "add_premium" /\ ret.value) =>
        GrantedNow(ret.kind, ret.id, ret.tier, default_duration)

\* a tier-1 grant made after the clock passed the end of an earlier subscription
C8_Witness ==
    /\ ret.op = "add_premium" /\ ret.value
    /\ ret.tier = 1
    /\ now > default_duration * DaySeconds
    /\ GrantedNow(ret.kind, ret.id, 1, default_duration)

\* the enhanced store holds the guild's grant of tier t, unexpired and unrevoked
E_HoldsGrant(id, t) ==
    /\ impl = "enhanced"
    /\ guild_premium[id] /= None
    /\ Get(guild_premium[id]).status
    /\ Get(guild_premium[id]).tier = t
    /\ Get(guild_premium[id]).expires_at /= None
    /\ ~StoredExpired("guild", id)

\* the read can be answered: the store is reachable or the cache entry is valid
E_Answerable(id) ==
    dbUp \/ (guild_premium_cache[id] /= None /\ E_CacheValid(Get(guild_premium_cache[id])))

\* C9: while the guild's grant of tier t (1..3) is unexpired and unrevoked,
\* get_guild_premium_tier returns exactly t on every read that can be answered
\* (store reachable or cache entry valid), whatever tier an earlier grant gave.
C9_TierIsGrantedTier ==
    [][\A i \in Ids, t \in E_TierIds :
          (/\ E_HoldsGrant(i, t)
           /\ E_Answerable(i)
           /\ IsCall(ret', {"get_tier"}, "guild", i))
             => ret'.num = t]_vars

\* get_guild_premium_tier answered 1 from the store after the cache went stale
C9_Witness ==
    /\ E_HoldsGrant(1, 1)
    /\ IsCall(ret, {"get_tier"}, "guild", 1)
    /\ ret.num = 1
    /\ ret.queried /\ ~ret.fromCache
    /\ now > 0

\* C10: a sweep whose store calls all succeed leaves every subject that was expired
\* with tier /= NONE at persisted tier NONE (guilds with empty
\* enabled_features) and out of premium_guilds / premium_users / feature_cache,
\* and leaves every subject whose expires_at is in the future unchanged in the
\* store and in the caches.
C10_SweepCorrect ==
    [][(ret'.op = "sweep" /\ dbUp /\ ret'.value) =>
          \A k \in Kinds, i \in Ids :
             LET docs == M_Docs(k)
             IN /\ (/\ docs[i] /= None
                    /\ StoredExpired(k, i)
                    /\ Get(docs[i]).tier /= TierNONE)
                      => /\ Get(M_Docs(k)'[i]).tier = TierNONE
                         /\ k = "guild" => Get(M_Docs(k)'[i]).enabled_features = {}
                         /\ i \notin M_Cached(k)'
                         /\ k = "guild" => feature_cache'[i] = None
                /\ (/\ docs[i] /= None
                    /\ StoredExpiresAt(k, i) /= None
                    /\ Get(StoredExpiresAt(k, i)) > now)
                      => /\ M_Docs(k)'[i] = docs[i]
                         /\ (i \in M_Cached(k)') = (i \in M_Cached(k))
                         /\ k = "guild" => feature_cache'[i] = feature_cache[i]]_vars

\* a sweep downgraded the expired guild and left the running user premium
C10_Witness ==
    /\ ret.op = "sweep"
    /\ ret.num = 1 /\ ret.num2 = 0
    /\ guild_docs[1] /= None /\ Get(guild_docs[1]).tier = TierNONE
    /\ 1 \notin premium_guilds
    /\ user_docs[1] /= None /\ Get(user_docs[1]).tier /= TierNONE
    /\ 1 \in premium_users

\* the ids whose stored tier the step takes from a premium tier to NONE
M_Transitioned(kind) ==
    {i \in Ids : /\ M_Docs(kind)[i] /= None
                 /\ Get(M_Docs(kind)[i]).tier /= TierNONE
                 /\ Get(M_Docs(kind)'[i]).tier = TierNONE}

\* C11: check_and_remove_expired returns (g, u), the numbers of guilds and of
\* users whose stored tier the call took to NONE; a subject whose save returned
\* an error result is not counted.
C11_SweepCountsPersisted ==
    [][ret'.op = "sweep" =>
          /\ ret'.num = Cardinality(M_Transitioned("guild"))
          /\ ret'.num2 = Cardinality(M_Transitioned("user"))]_vars

\* the store holds a record of the subject
HasRecord(kind, id) ==
    CASE impl = "enhanced" -> E_Store(kind)[id] /= None
      [] impl = "models" -> M_Docs(kind)[id] /= None
      [] OTHER -> kind = "guild" /\ level_docs[id] /= None

\* what the in-memory cache holds for the subject
CacheEntry(kind, id) ==
    CASE impl = "enhanced" -> E_Cache(kind)[id]
      [] impl = "models" ->
            IF id \in M_Cached(kind)
            THEN Some(IF kind = "guild" THEN feature_cache[id] ELSE None)
            ELSE None
      [] OTHER -> IF kind = "guild" /\ cache[id] /= None
                  THEN Some(<<Get(cache[id]), cache_last_updated[id]>>)
                  ELSE None

\* C12: remove_guild_premium(G) for a guild without a persisted record returns
\* false without raising, and creates no record and no cache entry for G.
C12_RevokeOfUnknownGuild ==
    [][\A i \in Ids :
          (~HasRecord("guild", i) /\ IsCall(ret', {"remove_premium"}, "guild", i))
             => /\ ret'.value = FALSE
                /\ ~ret'.raised
                /\ ~HasRecord("guild", i)'
                /\ CacheEntry("guild", i)' = CacheEntry("guild", i)]_vars

NothingWritten == UNCHANGED <<enhVars, modVars, accVars>>

\* C14: a request naming an unknown feature or an invalid tier returns false,
\* raises nothing and changes neither the store nor the cache: has_feature /
\* has_feature_access for an unregistered feature name, add_guild_premium /
\* add_user_premium / set_guild_premium_level for a tier outside the defined tiers.
C14_InvalidRequestRejected ==
    [][/\ (ret'.op = "has_feature" /\ ret'.feature \notin E_Features)
            => (ret'.value = FALSE /\ ~ret'.raised /\ NothingWritten)
       /\ (ret'.op = "has_feature_access" /\ ret'.feature \notin A_Features)
            => (ret'.value = FALSE /\ ~ret'.raised /\ NothingWritten)
       /\ (impl = "enhanced" /\ ret'.op = "add_premium" /\ ret'.tier \notin E_TierIds)
            => (ret'.value = FALSE /\ ~ret'.raised /\ NothingWritten)
       /\ (ret'.op = "set_level" /\ ret'.tier \notin A_Levels)
            => (ret'.value = FALSE /\ ~ret'.raised /\ NothingWritten)]_vars

\* when the last of the calls made so far returned
T_QuietSince ==
    LET done == {Get(tasks[t].returned_at) : t \in {u \in TaskIds : tasks[u].pc = "done"}}
    IN CHOOSE m \in done : \A d \in done : d <= m

\* the verdict of the stored document a read finds: status set and not expired
T_StoreVerdict(id) ==
    /\ rows[id] /= <<>>
    /\ Head(rows[id]).status
    /\ \/ Head(rows[id]).expires_at = None
       \/ fromisoformat(Get(Head(rows[id]).expires_at)) >= now

\* C15: for every interleaving at the awaits of concurrent add_guild_premium
\* and remove_guild_premium calls on one guild, once all calls have returned
\* the guild's stored document is what the last write to the store set, and no
\* read returns a cached verdict that disagrees with the store more than
\* cache_ttl seconds after the calls returned.
C15_LastWriteWins ==
    /\ [](T_AllReturned =>
             \A i \in Ids :
                lastWrite[i] /= None =>
                   /\ rows[i] /= <<>>
                   /\ T_Written(Head(rows[i])) = Get(lastWrite[i]))
    /\ [][\A i \in Ids :
             (/\ T_AllReturned
              /\ IsCall(ret', {"is_premium"}, "guild", i)
              /\ ret'.fromCache
              /\ ret'.value /= T_StoreVerdict(i))
                => now - T_QuietSince <= cache_ttl]_vars

\* C16: whatever grants, revokes and reads ran and however they interleaved,
\* the guild premium collection holds at most one document per guild id.
C16_OneRowPerSubject == \A i \in Ids : Len(rows[i]) <= 1

\* the bot is open, has a premium manager and on_ready has started the checker
B_Running == ~bot.closed /\ bot.premium_manager /\ bot.task /= "none"

\* C17: while the bot is not closed and has a premium manager, the checker
\* task sweeps again and again: after every sweep, one that raised included,
\* another sweep is attempted unless the bot is closed, and a sweep that is
\* not the first of its task comes exactly one sleep of 3600 s after the one
\* before.
C17_SweepRecurs ==
    /\ \A b \in BOOLEAN :
          (B_Running /\ bot.turn = b) ~> (bot.closed \/ bot.turn /= b)
    /\ (B_Running /\ bot.last = "raised") ~> (bot.closed \/ bot.task = "loop")
    /\ [][(bot'.turn /= bot.turn /\ ~bot.fresh) => bot.waited = sweep_interval]_vars

\* a sweep that returned, made by the loop after an earlier sweep had raised
C17_Witness ==
    /\ B_Running
    /\ bot.raised_seen
    /\ bot.last = "ok"
    /\ bot.sweeps >= 2
    /\ bot.task = "sleeping"

\* the call has returned
K_Returned == client.pc = "returned"

\* C18: every public operation of SafeMongoDBClient returns a SafeMongoDBResult
\* and lets no exception through; when the driver raised in connect or in the
\* operation's driver call the result has success = false and error_type = the
\* class name of the exception, with the offending document / query as data
\* for insert, update and delete; when nothing was raised it is a success.
C18_AlwaysAResult ==
    K_Returned =>
        /\ ~client.result.raised
        /\ (client.thrown = "none") => client.result.success
        /\ (client.thrown /= "none" /\ client.result.error_type /= "ReconnectionFailure") =>
              /\ ~client.result.success
              /\ client.result.error_type = client.thrown
              /\ client.op /= "connect" => client.result.data = K_error_data(client.op)

\* C19: a call on a client that is not connected makes at most 3 connect
\* attempts with a 2 s delay between two attempts; it goes on to the operation
\* right after the first attempt that succeeds, returns ReconnectionFailure
\* only after exactly 3 failed attempts, and always returns.
C19_BoundedReconnect ==
    /\ [](/\ client.connects <= max_reconnect_attempts
          /\ client.pc \in {"ensure", "sleep"} =>
                (client.connects = client.fails /\ client.fails < max_reconnect_attempts)
          /\ client.pc = "ensure" => client.slept = client.fails * reconnect_delay
          /\ (client.pc = "execute" /\ client.connects > 0) =>
                /\ client.connects = client.fails + 1
                /\ client.slept = client.fails * reconnect_delay
                /\ client.connected
          /\ (K_Returned /\ client.result.error_type = "ReconnectionFailure") =>
                /\ client.connects = max_reconnect_attempts
                /\ client.fails = max_reconnect_attempts
                /\ client.slept = (max_reconnect_attempts - 1) * reconnect_delay
                /\ client.tries = 0)
    /\ (client.pc \notin {"idle", "returned"}) ~> K_Returned

\* find_one on a closed client gave up after three failed connects and 4 s
C19_Witness ==
    /\ K_Returned
    /\ client.op = "find_one"
    /\ client.result.error_type = "ReconnectionFailure"
    /\ client.connects = 3
    /\ client.slept = 4
    /\ ~client.connected

\* the exception is a lost connection, not a malformed request
K_Transient(e) == K_isinstance(e, "ConnectionFailure")

\* C20: a connection failure raised while an operation runs on a connected
\* client is retried, so its error result comes only after more than one
\* attempt; a malformed query or document surfaces after a single attempt.
C20_TransientRetried ==
    (K_Returned /\ client.tries > 0 /\ client.thrown /= "none") =>
        /\ K_Transient(client.thrown) => client.tries > 1
        /\ client.thrown \in K_Malformed => client.tries = 1

\* C21: close() leaves the client disconnected (_connected false, _database
\* unset) whether it is called before any connect, on a connected client or
\* after a previous close, and a further close changes nothing of the
\* client's connection state.
C21_CloseIdempotent ==
    /\ [](client.closes > 0 => (~client.connected /\ ~client.has_database))
    /\ [][(client.closes > 0 /\ client'.closes > client.closes) =>
             /\ client'.connected = client.connected
             /\ client'.has_database = client.has_database
             /\ client'.has_client = client.has_client]_vars

\* a client that had connected was closed twice in a row
C21_Witness ==
    /\ client.closes = 2
    /\ client.has_client
    /\ client.connects > 0
    /\ ~client.connected
    /\ ~client.has_database

\* the step is a call of save() on the record
D_SaveStep == mm'.ret.op = "save" /\ mm'.saves = mm.saves + 1

\* C22: the saves of one record leave one persisted row for it: the first
\* successful save of a record without identity inserts one row and
\* back-fills its _id onto the record; every save of a record with an
\* identity leaves the set of rows as it is and, when it succeeds, $sets the
\* record's fields on the row of that _id; once a save has succeeded the
\* record has exactly one row, and never more than one.
C22_SaveKeepsOneRow ==
    /\ [](/\ Cardinality(mm.mine) <= 1
          /\ (mm.record /= None /\ mm.saved > 0) =>
                /\ Cardinality(mm.mine) = 1
                /\ Get(mm.record)._id /= None
                /\ mm.mine = {Get(Get(mm.record)._id).v}
                /\ mm.mine \subseteq DOMAIN mm.collection)
    /\ [][D_SaveStep =>
            LET r == Get(mm.record)
                rr == Get(mm'.record)
            IN IF r._id = None
               THEN IF mm'.ret.error
                    THEN mm'.collection = mm.collection /\ rr._id = None
                    ELSE /\ Cardinality(DOMAIN mm'.collection)
                              = Cardinality(DOMAIN mm.collection) + 1
                         /\ rr._id /= None
                         /\ Get(rr._id).v \in (DOMAIN mm'.collection) \ DOMAIN mm.collection
                         /\ mm'.collection[Get(rr._id).v] = to_dict(rr)
               ELSE /\ DOMAIN mm'.collection = DOMAIN mm.collection
                    /\ rr._id = r._id
                    /\ ~mm'.ret.inserted
                    /\ ~mm'.ret.error =>
                          \A k \in DOMAIN to_dict(r) :
                             mm'.collection[Get(r._id).v][k] = to_dict(r)[k]]_vars

\* a new record was saved three times, with a changed attribute in between:
\* one row, holding the changed attribute
C22_Witness ==
    /\ mm.record /= None
    /\ ~mm.loaded
    /\ mm.saved = 3
    /\ Cardinality(DOMAIN mm.collection) = 1
    /\ mm.mine = DOMAIN mm.collection
    /\ \E n \in mm.mine : mm.collection[n]["name"] = D_Str(2)

\* two records with the same _id and the same public attributes
D_Equivalent(a, b) ==
    /\ a._id = b._id
    /\ D_Only(a.attrs, (DOMAIN a.attrs) \ D_Private)
          = D_Only(b.attrs, (DOMAIN b.attrs) \ D_Private)

\* C23: a record r read with from_dict from a persisted document, date
\* wrappers included, satisfies from_dict(to_dict(r)) equivalent to r (same
\* _id, same public attributes), and from_dict has turned every
\* {'$date': milliseconds} field into the native timestamp of that instant.
C23_RoundTrip ==
    /\ []((mm.record /= None /\ mm.loaded) =>
             D_Equivalent(from_dict(to_dict(Get(mm.record))), Get(mm.record)))
    /\ [][(mm'.ret.op = "get_by_id" /\ mm'.record /= None /\ mm.record = None) =>
            \E n \in DOMAIN mm.collection :
               LET d == mm.collection[n]
                   r == Get(mm'.record)
               IN /\ r._id = Some(d["_id"])
                  /\ DOMAIN r.attrs = (DOMAIN d) \ {"_id"}
                  /\ \A k \in DOMAIN r.attrs :
                        /\ r.attrs[k].t /= "$date"
                        /\ d[k].t = "$date" => r.attrs[k] = D_Datetime(d[k].v * 1000)
                        /\ d[k].t /= "$date" => r.attrs[k] = d[k]]_vars

\* a record read from a document with a date wrapper and a private field
C23_Witness ==
    /\ mm.record /= None
    /\ mm.loaded
    /\ mm.ret.op = "get_by_id"
    /\ \E n \in mm.mine :
          /\ "expires_at" \in DOMAIN mm.collection[n]
          /\ mm.collection[n]["expires_at"] = D_DateWrapper(1500)
          /\ "_rev" \in DOMAIN mm.collection[n]
    /\ Get(mm.record).attrs["expires_at"] = D_Datetime(1500000)

\* C24: when the access layer's call returns an error result, find returns
\* an empty list, find_one and get_by_id return None, count returns 0 and
\* aggregate returns an empty list; none of them raises or returns the error
\* object.
C24_FindersSwallowErrors ==
    (mm.ret.error /\ mm.ret.op \in {"find", "find_one", "get_by_id", "count", "aggregate"}) =>
        /\ ~mm.ret.raised
        /\ mm.ret.value.kind /= "SafeMongoDBResult"
        /\ mm.ret.op \in {"find", "aggregate"} => mm.ret.value = D_EmptyList
        /\ mm.ret.op \in {"find_one", "get_by_id"} => mm.ret.value = D_None
        /\ mm.ret.op = "count" => mm.ret.value = D_Int(0)

\* find answered with an empty list although a saved row matches the query,
\* because the access layer returned an error
C24_Witness ==
    /\ mm.ret.op = "find"
    /\ mm.ret.error
    /\ mm.ret.value = D_EmptyList
    /\ mm.saved > 0
    /\ D_Matching(D_Str(1)) /= <<>>

\* the elements of a list
G_Set(l) == {l[i] : i \in DOMAIN l}

\* C25: for every content of the registry and all levels L1 < L2 the features
\* returned by get_features_by_level(L1) are among those returned by
\* get_features_by_level(L2), and get_features_by_level(L) returns exactly
\* the registered features whose required_level is at most L.
C25_LevelsMonotonic ==
    /\ \A l1, l2 \in G_AskedLevels :
          l1 < l2 => G_Set(get_features_by_level(registry.features, l1))
                        \subseteq G_Set(get_features_by_level(registry.features, l2))
    /\ registry.asked =>
          G_Set(registry.returned)
             = {f \in G_Set(registry.features) : f.required_level <= registry.level}

\* a registry with features of three different levels was asked for level 2
\* and returned two of them
C25_Witness ==
    /\ registry.asked
    /\ registry.level = 2
    /\ Len(registry.features) = 3
    /\ Len(registry.returned) = 2
    /\ \E f \in G_Set(registry.features) : f.required_level = 1
    /\ \E f \in G_Set(registry.features) : f.required_level = 2
    /\ \E f \in G_Set(registry.features) : f.required_level = 4

\* the subject is in state NONE: the store holds no running grant of it and
\* no cache holds it as premium
SubjectNone(kind, id) ==
    /\ StoredNone(kind, id)
    /\ CASE impl = "enhanced" ->
               E_Cache(kind)[id] /= None => ~Get(E_Cache(kind)[id]).status
         [] impl = "models" -> id \notin M_Cached(kind)
         [] OTHER -> TRUE

\* C26: a read (is_*_premium, get_*_premium_tier, has_feature, can_use_feature)
\* of a subject in state NONE returns false / tier 0 and leaves the subject
\* in state NONE, whatever time has passed and whatever the cache still
\* holds; only a grant makes the subject premium.
C26_ReadsNeverGrant ==
    [][\A k \in Kinds, i \in Ids :
          (/\ impl \in {"enhanced", "models"}
           /\ SubjectNone(k, i)
           /\ IsCall(ret', {"is_premium", "get_tier", "has_feature", "can_use_feature"}, k, i))
             => /\ ret'.value = FALSE
                /\ ret'.num = 0
                /\ SubjectNone(k, i)']_vars

\* C27: when add_guild_premium(G) saves a renewed subscription after a
\* running sweep has read G as expired and before that sweep saves G, then,
\* once both have finished, G's stored tier, expires_at and enabled_features
\* are those of the grant and G is in the premium cache.
C27_GrantSurvivesSweep ==
    \A i \in Ids :
       (/\ sw.sweep.pc = "done"
        /\ sw.grant.pc = "done"
        /\ sw.grant.id = i
        /\ i \in sw.overlap)
          => /\ guild_docs[i] = sw.granted[i]
             /\ i \in premium_guilds
             /\ feature_cache[i] = Some(Get(sw.granted[i]).enabled_features)

\* the command's cog asks for premium
Q_Gated == gate.cog /\ (gate.premium_required \/ gate.premium_feature /= "none")

\* the premium check that matches the command
Q_Matching ==
    IF ~gate.guild THEN "is_user_premium"
    ELSE IF gate.premium_feature /= "none" THEN "can_use_feature"
    ELSE "is_guild_premium"

\* C28: global_command_check always lets the owner through; for a non-owner
\* and a command whose cog sets premium_required or premium_feature it
\* returns false when bot.premium_manager is absent, and returns true only
\* when the matching check (is_user_premium in a DM, can_use_feature for a
\* premium_feature, is_guild_premium for premium_required) returned true.
C28_CommandCheckFailsClosed ==
    gate.called =>
        /\ gate.owner => gate.result = "True"
        /\ (~gate.owner /\ Q_Gated /\ ~gate.manager) =>
              (gate.result = "False" /\ gate.checked = "none")
        /\ (~gate.owner /\ Q_Gated /\ gate.result = "True") =>
              /\ gate.manager
              /\ gate.checked = Q_Matching
              /\ gate.answer = "True"

\* a guild command of a cog with premium_feature and premium_required was
\* let through after can_use_feature answered true
C28_Witness ==
    /\ gate.called
    /\ ~gate.owner
    /\ Q_Gated
    /\ gate.guild
    /\ gate.premium_required
    /\ gate.premium_feature /= "none"
    /\ gate.manager
    /\ gate.checked = "can_use_feature"
    /\ gate.result = "True"

\* the callers whose underlying command sync is running
Y_Syncing == {t \in Y_Callers : sync.callers[t].pc = "syncing"}

\* C29: at most one sync_commands call runs the underlying command sync at
\* any time; a call that starts while another one is in progress returns
\* without syncing; _sync_in_progress is true exactly while a sync runs, so
\* it is false again after every call that set it, whether the sync
\* returned, raised or was cancelled, and it always becomes false again.
C29_OneSyncAtATime ==
    /\ [](/\ Cardinality(Y_Syncing) <= 1
          /\ sync.in_progress <=> Y_Syncing /= {})
    /\ [][\A t \in Y_Callers :
             (Y_Syncing /= {} /\ t \notin Y_Syncing
                 /\ sync'.callers[t] /= sync.callers[t])
               => (sync'.callers[t] = [pc |-> "done", result |-> "skipped"]
                     /\ sync'.in_progress /\ Y_Syncing' = Y_Syncing)]_vars
    /\ sync.in_progress ~> ~sync.in_progress

\* after a sync that raised, another call runs the sync and a third call made
\* meanwhile was skipped
C29_Witness ==
    \E a, b, c \in Y_Callers :
       /\ sync.callers[a] = [pc |-> "done", result |-> "error"]
       /\ sync.callers[b].pc = "syncing"
       /\ sync.callers[c] = [pc |-> "done", result |-> "skipped"]
       /\ sync.in_progress

\* C30: a critical background task that ended with an exception while the bot
\* is open is restarted by the monitor under its name and the restarted task
\* runs its loop again: its first step takes it into its coroutine, and
\* unless the bot is closed the task of that name gets to run again; bg_tasks
\* never holds more than one task that is not done under one name.
C30_CriticalTaskRestarted ==
    /\ [](\A n \in Z_Names :
             Cardinality({e \in {bg.tasks[n]} : e.state \in Z_NotDone}) <= 1)
    /\ [][\A n \in Z_Names :
             (/\ bg.tasks[n].restarted
              /\ bg.tasks[n].state = "pending"
              /\ bg'.tasks[n].state \notin {"pending", "cancelled"}
              /\ bg'.tasks[n].restarted)
                => bg'.tasks[n].state = "running"]_vars
    /\ \A n \in Z_Names :
          (bg.tasks[n].state = "failed" /\ bg.tasks[n].critical /\ ~bg.closed)
             ~> (bg.closed \/ bg.tasks[n].state = "running")

====
